---------------------------- MODULE Spec2Model ----------------------------
(***************************************************************************)
(* A model of the medical readability analyzer: the source classifier      *)
(* (modules/classifier.py), the content extractor, normalizer and          *)
(* validator (modules/scraper.py), the readability scorer                  *)
(* (modules/readability.py), the statistical comparator                    *)
(* (modules/statistics.py) and the batch orchestrator (app.py).            *)
(*                                                                         *)
(* Python strings are TLA+ strings; TLC evaluates Len, SubSeq and \o on    *)
(* them, so substring tests, suffix tests and case folding are computed    *)
(* character by character as the code computes them.  The characters of    *)
(* the model are those a TLA+ string can hold: tab, line feed, form feed,  *)
(* carriage return, the printable ASCII characters but the grave accent,   *)
(* the characters U+00A0 to U+00FF, and some 490 characters above them     *)
(* (OtherChars).  A string with any other character is outside the model.  *)
(***************************************************************************)
EXTENDS Integers, Sequences, FiniteSets, TLC

VARIABLES cls, ext, scr, rd, cmp, run, ana, rea, amb, rty, srch, cln, vld

vars == <<cls, ext, scr, rd, cmp, run, ana, rea, amb, rty, srch, cln, vld>>

\* The value of a component that a specification does not exercise.
Idle == [pc |-> "idle"]

\* Python's None.
None == "None"

-----------------------------------------------------------------------------
(* Strings                                                                 *)

CharAt(s, i) == SubSeq(s, i, i)

\* str.__contains__: p in t
Contains(t, p) ==
    \E i \in 1..(Len(t) - Len(p) + 1) : SubSeq(t, i, i + Len(p) - 1) = p

\* str.endswith
EndsWith(t, p) ==
    Len(t) >= Len(p) /\ SubSeq(t, Len(t) - Len(p) + 1, Len(t)) = p

\* str.startswith
StartsWith(t, p) ==
    Len(t) >= Len(p) /\ SubSeq(t, 1, Len(p)) = p

UpperChars == "ABCDEFGHIJKLMNOPQRSTUVWXYZ"
LowerChars == "abcdefghijklmnopqrstuvwxyz"
DigitChars == "0123456789"

\* The letters outside ASCII that str.lower changes, and in LowerOther, at the
\* same place, what it makes of each.
UpperOther ==
       "ÀÁÂÃÄÅÆÇÈÉÊËÌÍÎÏÐÑÒÓÔÕÖØÙÚÛÜÝÞΑΒΓΔΕΖΗΘΙΚΛΜΝΞΟΠΡΣ"
    \o "ΤΥΦΧΨΩϜ"

LowerOther ==
       "àáâãäåæçèéêëìíîïðñòóôõöøùúûüýþαβγδεζηθικλμνξοπρσ"
    \o "τυφχψωϝ"

\* The characters outside ASCII that \w matches (str.isalnum).
WordOther ==
       "ª²³µ¹º¼½¾ÀÁÂÃÄÅÆÇÈÉÊËÌÍÎÏÐÑÒÓÔÕÖØÙÚÛÜÝÞßàáâãäåæç"
    \o "èéêëìíîïðñòóôõöøùúûüýþÿƒǵˆˇΑΒΓΔΕΖΗΘΙΚΛΜΝΞΟΠΡΣΤΥΦ"
    \o "ΧΨΩαβγδεζηθικλμνξοπρςστυφχψωϑϒϕϖϜϝϰϱϵ"

\* The characters \s matches (str.isspace).
SpaceChars == " \t\n\r\f "

IsCharOf(c, set) == \E i \in 1..Len(set) : CharAt(set, i) = c

\* The place of the character c in the string set.
IndexIn(c, set) == CHOOSE i \in 1..Len(set) : CharAt(set, i) = c

LowerChar(c) ==
    IF IsCharOf(c, UpperChars) THEN CharAt(LowerChars, IndexIn(c, UpperChars))
    ELSE IF IsCharOf(c, UpperOther) THEN CharAt(LowerOther, IndexIn(c, UpperOther))
    ELSE c

\* The cased characters outside ASCII: the letters of the two cases and
\* the other characters Unicode counts as lower case.
CasedOther ==
       "ªµºÀÁÂÃÄÅÆÇÈÉÊËÌÍÎÏÐÑÒÓÔÕÖØÙÚÛÜÝÞßàáâãäåæçèéêëìíîïðñòóôõöøùúûü"
    \o "ýþÿƒǵΑΒΓΔΕΖΗΘΙΚΛΜΝΞΟΠΡΣΤΥΦΧΨΩαβγδεζηθικλμνξοπρςστυφχψωϑϒϕϖϜϝϰϱϵ"

\* The case-ignorable characters.
CaseIgnorable == "'.:^¨­¯´·¸ˆˇ˘˙˚˛˜˝⃒⃥⃛⃜"

IsCased(c) == IsCharOf(c, UpperChars \o LowerChars \o CasedOther)

RECURSIVE BeforeIgnorable(_, _)
\* The nearest place at or before j whose character is not case-ignorable,
\* 0 when there is none.
BeforeIgnorable(s, j) ==
    IF j = 0 \/ ~ IsCharOf(CharAt(s, j), CaseIgnorable) THEN j ELSE BeforeIgnorable(s, j - 1)

RECURSIVE AfterIgnorable(_, _)
\* The nearest place at or after j whose character is not case-ignorable,
\* Len(s) + 1 when there is none.
AfterIgnorable(s, j) ==
    IF j > Len(s) \/ ~ IsCharOf(CharAt(s, j), CaseIgnorable) THEN j ELSE AfterIgnorable(s, j + 1)

\* The capital sigma whose nearest neighbours that are not case-ignorable
\* are before at place b and after at place a ends a word: a cased character
\* comes before it and none comes after it.
FinalSigma(s, b, a) ==
    /\ b >= 1 /\ IsCased(CharAt(s, b))
    /\ (a > Len(s) \/ ~ IsCased(CharAt(s, a)))

\* The lower case of the character of s at place i.
LowerAt(s, i) ==
    IF CharAt(s, i) = "Σ"
    THEN (IF FinalSigma(s, BeforeIgnorable(s, i - 1), AfterIgnorable(s, i + 1))
          THEN "ς" ELSE "σ")
    ELSE LowerChar(CharAt(s, i))

RECURSIVE LowerFrom(_, _)
LowerFrom(s, i) == IF i > Len(s) THEN "" ELSE LowerAt(s, i) \o LowerFrom(s, i + 1)

\* str.lower
ToLower(s) == LowerFrom(s, 1)

\* The least index i >= from with CharAt(s, i) in set, or Len(s) + 1.
RECURSIVE FindCharOf(_, _, _)
FindCharOf(s, set, from) ==
    IF from > Len(s) THEN Len(s) + 1
    ELSE IF IsCharOf(CharAt(s, from), set) THEN from
    ELSE FindCharOf(s, set, from + 1)

RECURSIVE LStrip(_, _)
\* s.lstrip(set)
LStrip(s, set) ==
    IF s # "" /\ IsCharOf(CharAt(s, 1), set) THEN LStrip(SubSeq(s, 2, Len(s)), set) ELSE s

RECURSIVE RemoveChars(_, _)
\* s without the characters of set
RemoveChars(s, set) ==
    IF s = "" THEN ""
    ELSE (IF IsCharOf(CharAt(s, 1), set) THEN "" ELSE CharAt(s, 1))
         \o RemoveChars(SubSeq(s, 2, Len(s)), set)

RECURSIVE RStrip(_, _)
\* s.rstrip(set)
RStrip(s, set) ==
    IF s # "" /\ IsCharOf(CharAt(s, Len(s)), set) THEN RStrip(SubSeq(s, 1, Len(s) - 1), set)
    ELSE s

RECURSIVE Split(_, _)
\* s.split(c) for a separator c of one character; for a c of more, the
\* pieces of s between any two of these characters.
Split(s, c) ==
    LET i == FindCharOf(s, c, 1)
    IN  IF i > Len(s) THEN <<s>>
        ELSE <<SubSeq(s, 1, i - 1)>> \o Split(SubSeq(s, i + 1, Len(s)), c)

\* Every character of s is one of set.
AllCharsOf(s, set) == \A k \in 1..Len(s) : IsCharOf(CharAt(s, k), set)

RECURSIVE DigitsValue(_, _, _, _)
\* int(s, base) for a string of digits of that base, computed up to the
\* limit: a greater number gives limit + 1.
DigitsValue(s, base, limit, acc) ==
    IF s = "" THEN acc
    ELSE LET c == LowerChar(CharAt(s, 1))
             v == IF IsCharOf(c, DigitChars) THEN IndexIn(c, DigitChars) - 1
                  ELSE 9 + IndexIn(c, "abcdef")
             n == acc * base + v
         IN  DigitsValue(SubSeq(s, 2, Len(s)), base, limit, IF n > limit THEN limit + 1 ELSE n)

RECURSIVE SeqSum(_)
SeqSum(s) == IF s = <<>> THEN 0 ELSE Head(s) + SeqSum(Tail(s))

-----------------------------------------------------------------------------
(* config.py                                                               *)

INSTITUTIONAL_DOMAINS ==
    << ".gov", ".gov.uk", ".gov.au", ".gov.ca",
       ".edu", ".ac.uk", ".ac.au", ".edu.au",
       ".nhs.uk", ".nhs.net",
       "who.int", "cdc.gov", "nih.gov",
       "mayoclinic.org", "clevelandclinic.org",
       "hopkinsmedicine.org", "webmd.com",
       "healthline.com", "medlineplus.gov" >>

INSTITUTIONAL_PATTERNS ==
    << "/government/", "/health/official/",
       "/public-health/", "/medical-center/",
       "university", "college", "hospital" >>

INSTITUTIONAL_KEYWORDS ==
    << "National Institutes", "Centers for Disease",
       "National Health Service", "Mayo Clinic",
       "Cleveland Clinic", "Johns Hopkins",
       "CDC", "NIH", "NHS", "WHO" >>

CONFIDENCE_THRESHOLD == 3

MIN_WORD_COUNT == 50
MAX_WORD_COUNT == 50000

-----------------------------------------------------------------------------
(* modules/classifier.py                                                   *)

\* urllib.parse.scheme_chars
SchemeChars == LowerChars \o UpperChars \o DigitChars \o "+-."

\* _WHATWG_C0_CONTROL_OR_SPACE: the blank and the control characters.
C0ControlOrSpace == " \t\n\r\f"

\* _UNSAFE_URL_BYTES_TO_REMOVE
UnsafeUrlChars == "\t\r\n"

\* IPv6Address._HEX_DIGITS
HexDigits == "0123456789abcdefABCDEF"

\* IPv4Address._parse_octet(octet_str) returns.
IsOctet(octet_str) ==
    /\ octet_str # ""
    /\ AllCharsOf(octet_str, DigitChars)
    /\ Len(octet_str) <= 3
    /\ (octet_str = "0" \/ CharAt(octet_str, 1) # "0")
    /\ DigitsValue(octet_str, 10, 255, 0) <= 255

\* IPv4Address(address) returns.
IsIPv4(address) ==
    /\ ~ Contains(address, "/")
    /\ address # ""
    /\ LET octets == Split(address, ".")
       IN  Len(octets) = 4 /\ \A k \in 1..4 : IsOctet(octets[k])

\* IPv6Address._parse_hextet(hextet_str) returns.
IsHextet(hextet_str) ==
    hextet_str # "" /\ AllCharsOf(hextet_str, HexDigits) /\ Len(hextet_str) <= 4

\* IPv6Address._ip_int_from_string, from the "::" at parts[i] on: the
\* hextets before and after it are fewer than 8, none is missing at an end
\* that has its own colon, and each is a hextet.
SkipOk(parts, i, n) ==
    LET hi == IF parts[1] = "" THEN i - 2 ELSE i - 1
        lo == IF parts[n] = "" THEN n - i - 1 ELSE n - i
    IN  /\ parts[1] = "" => hi = 0
        /\ parts[n] = "" => lo = 0
        /\ 8 - (hi + lo) >= 1
        /\ \A k \in 1..hi : IsHextet(parts[k])
        /\ \A k \in (n - lo + 1)..n : IsHextet(parts[k])

\* IPv6Address._ip_int_from_string, once a trailing IPv4 address became two
\* hextets: at most 9 parts, at most one "::", and with none 8 hextets.
HextetsOk(parts, skips) ==
    /\ Len(parts) <= 9
    /\ Cardinality(skips) <= 1
    /\ IF skips # {}
       THEN SkipOk(parts, CHOOSE j \in skips : TRUE, Len(parts))
       ELSE Len(parts) = 8 /\ \A k \in 1..Len(parts) : IsHextet(parts[k])

\* The parts of an address with a trailing IPv4 address made two hextets.
WithoutIPv4(split, ipv4) ==
    IF ipv4 THEN SubSeq(split, 1, Len(split) - 1) \o <<"0", "0">> ELSE split

\* The places of the empty parts that are not the first or the last part.
Skips(parts) == { i \in 2..(Len(parts) - 1) : parts[i] = "" }

\* IPv6Address._ip_int_from_string, for the parts between the colons.
SplitOk(split, last) ==
    /\ Len(split) >= 3
    /\ Contains(last, ".") => IsIPv4(last)
    /\ HextetsOk(WithoutIPv4(split, Contains(last, ".")),
                 Skips(WithoutIPv4(split, Contains(last, "."))))

\* IPv6Address._ip_int_from_string(ip_str) returns.
IsIPv6Parts(ip_str) ==
    /\ ip_str # ""
    /\ SplitOk(Split(ip_str, ":"), Split(ip_str, ":")[Len(Split(ip_str, ":"))])

\* IPv6Address(address) returns: no "/", a scope id after "%" that is not
\* empty and holds no "%", and an address before it.
IsIPv6(address) ==
    LET p        == FindCharOf(address, "%", 1)
        scope_id == SubSeq(address, p + 1, Len(address))
    IN  /\ ~ Contains(address, "/")
        /\ p <= Len(address) => (scope_id # "" /\ ~ Contains(scope_id, "%"))
        /\ IsIPv6Parts(SubSeq(address, 1, p - 1))

\* re.match(r"\Av[a-fA-F0-9]+\..+\Z", hostname)
IsIPvFuture(hostname) ==
    LET p == FindCharOf(hostname, ".", 2)
    IN  /\ StartsWith(hostname, "v")
        /\ p >= 3 /\ p < Len(hostname)
        /\ AllCharsOf(SubSeq(hostname, 2, p - 1), HexDigits)
        /\ \A k \in (p + 1)..Len(hostname) : CharAt(hostname, k) # "\n"

\* _check_bracketed_host(hostname) returns: an IPvFuture address, or an
\* address that ip_address takes for an IPv6 address (one it takes for an
\* IPv4 address has no colon and is rejected).
BracketedHostOk(hostname) ==
    IF StartsWith(hostname, "v") THEN IsIPvFuture(hostname)
    ELSE ~ IsIPv4(hostname) /\ IsIPv6(hostname)

\* The host between the brackets: netloc.partition('[')[2].partition(']')[0]
BracketedHost(after) == SubSeq(after, 1, FindCharOf(after, "]", 1) - 1)

\* urlsplit raises ValueError for the netloc: it holds one bracket only, or
\* a bracketed host that is no IPv6 or IPvFuture address.  (_checknetloc
\* raises for no netloc of the model's characters: none of them holds one of
\* "/?#@:" under NFKC normalization.)
NetlocRaises(netloc) ==
    \/ Contains(netloc, "[") /\ ~ Contains(netloc, "]")
    \/ Contains(netloc, "]") /\ ~ Contains(netloc, "[")
    \/ /\ Contains(netloc, "[") /\ Contains(netloc, "]")
       /\ ~ BracketedHostOk(
              BracketedHost(SubSeq(netloc, FindCharOf(netloc, "[", 1) + 1, Len(netloc))))

\* The result of urlparse, or the ValueError it raises.
Parsed(scheme, netloc, rest) ==
    [raises |-> NetlocRaises(netloc), scheme |-> scheme, netloc |-> netloc, rest |-> rest]

\* urlsplit after the scheme: the netloc is what follows "//" up to the
\* first of "/", "?", "#".
SplitNetloc(scheme, rest) ==
    IF StartsWith(rest, "//")
    THEN Parsed(scheme, SubSeq(rest, 3, FindCharOf(rest, "/?#", 3) - 1),
                SubSeq(rest, FindCharOf(rest, "/?#", 3), Len(rest)))
    ELSE Parsed(scheme, "", rest)

\* urlsplit, the scheme: the lowered text before the first ":" (at place i)
\* when it starts with an ASCII letter and holds only scheme characters.
SplitScheme(url, i) ==
    IF /\ i <= Len(url)
       /\ i > 1
       /\ IsCharOf(CharAt(url, 1), LowerChars \o UpperChars)
       /\ AllCharsOf(SubSeq(url, 1, i - 1), SchemeChars)
    THEN SplitNetloc(ToLower(SubSeq(url, 1, i - 1)), SubSeq(url, i + 1, Len(url)))
    ELSE SplitNetloc("", url)

\* urlsplit once the leading blanks and control characters were stripped
\* and the tabs and line ends removed.
UrlSplit(url) == SplitScheme(url, FindCharOf(url, ":", 1))

\* urllib.parse.urlparse(url): the scheme and the netloc of the result and
\* what follows them, or the ValueError it raises.
urlparse(url) == UrlSplit(RemoveChars(LStrip(url, C0ControlOrSpace), UnsafeUrlChars))

\* The netloc without a leading "www.".
WithoutWww(domain) ==
    IF StartsWith(domain, "www.") THEN SubSeq(domain, 5, Len(domain)) ELSE domain

\* The domain of a parsed URL; the url itself when urlparse raised.
DomainOf(url, parsed) == IF parsed.raises THEN url ELSE WithoutWww(parsed.netloc)

\* extract_domain_from_url(url): the netloc without a leading "www."; the
\* url itself when urlparse raises.
extract_domain_from_url(url) == DomainOf(url, urlparse(url))

DomainMatches(domain_lower, inst_domain) ==
    EndsWith(domain_lower, inst_domain) \/ Contains(domain_lower, inst_domain)

PatternMatches(url_lower, pattern) == Contains(url_lower, ToLower(pattern))

KeywordMatches(title_lower, keyword) == Contains(title_lower, ToLower(keyword))

\* A variant of the level 1 loop that does not break at the first match.
RECURSIVE DomainLoopNoBreak(_, _)
DomainLoopNoBreak(domain_lower, i) ==
    IF i > Len(INSTITUTIONAL_DOMAINS) THEN 0
    ELSE (IF DomainMatches(domain_lower, INSTITUTIONAL_DOMAINS[i]) THEN 3 ELSE 0)
         + DomainLoopNoBreak(domain_lower, i + 1)

\* Level 1: for inst_domain in INSTITUTIONAL_DOMAINS (from entry i on):
\* the first match adds 3 and breaks.
RECURSIVE DomainLoop(_, _)
DomainLoop(domain_lower, i) ==
    IF i > Len(INSTITUTIONAL_DOMAINS) THEN 0
    ELSE IF DomainMatches(domain_lower, INSTITUTIONAL_DOMAINS[i]) THEN 3
    ELSE DomainLoop(domain_lower, i + 1)

\* A variant of the level 2 loop that does not break at the first match.
RECURSIVE PatternLoopNoBreak(_, _)
PatternLoopNoBreak(url_lower, i) ==
    IF i > Len(INSTITUTIONAL_PATTERNS) THEN 0
    ELSE (IF PatternMatches(url_lower, INSTITUTIONAL_PATTERNS[i]) THEN 2 ELSE 0)
         + PatternLoopNoBreak(url_lower, i + 1)

\* Level 2: the first matching URL pattern adds 2 and breaks.
RECURSIVE PatternLoop(_, _)
PatternLoop(url_lower, i) ==
    IF i > Len(INSTITUTIONAL_PATTERNS) THEN 0
    ELSE IF PatternMatches(url_lower, INSTITUTIONAL_PATTERNS[i]) THEN 2
    ELSE PatternLoop(url_lower, i + 1)

\* Level 3: only for a non-empty title; the first matching keyword adds 1.
RECURSIVE KeywordLoop(_, _)
KeywordLoop(title_lower, i) ==
    IF i > Len(INSTITUTIONAL_KEYWORDS) THEN 0
    ELSE IF KeywordMatches(title_lower, INSTITUTIONAL_KEYWORDS[i]) THEN 1
    ELSE KeywordLoop(title_lower, i + 1)

Confidence(url, page_title, domain) ==
    LET dom          == IF domain = "" THEN extract_domain_from_url(url) ELSE domain
        url_lower    == ToLower(url)
        domain_lower == ToLower(dom)
        title_lower  == IF page_title = None \/ page_title = "" THEN "" ELSE ToLower(page_title)
    IN  DomainLoop(domain_lower, 1)
        + PatternLoop(url_lower, 1)
        + (IF title_lower # "" THEN KeywordLoop(title_lower, 1) ELSE 0)

\* A variant of the classification decision with a strict comparison.
DecisionStrict(confidence) ==
    IF confidence > CONFIDENCE_THRESHOLD THEN "Institutional" ELSE "Private"

Decision(confidence) ==
    IF confidence >= CONFIDENCE_THRESHOLD THEN "Institutional" ELSE "Private"

classify_source(url, page_title, domain) ==
    LET confidence == Confidence(url, page_title, domain)
    IN  [classification |-> Decision(confidence), confidence |-> confidence]

\* Inputs of the classifier.
ClassifyUrls ==
    { "https://www.cdc.gov/x",
      "https://example.com/government/a",
      "https://www.universityhospital.org/a",
      "http://blog.example.com/post",
      "https://www.nih.gov/hospital/cdc.gov",
      "HTTPS://WWW.MayoClinic.ORG/College",
      "https://x.ac.uk?q=/Public-Health/",
      "www.who.int/health/official/",
      " http://cdc.gov/x",
      "http://[a/b.gov" }

ClassifyTitles ==
    { None, "", "CDC Guidance", "Mayo Clinic and NIH news", "Who we are", "My blog" }

ClassifyDomains == { "", "cdc.gov", "example.com", "sub.Webmd.com.evil.net" }

InitClassify ==
    /\ cls \in [pc : {"ready"}, url : ClassifyUrls, title : ClassifyTitles,
                domain : ClassifyDomains, classification : {None}, confidence : {0}]
    /\ ext = Idle /\ scr = Idle /\ rd = Idle /\ cmp = Idle /\ run = Idle /\ ana = Idle /\ rea = Idle
    /\ amb = Idle /\ rty = Idle /\ srch = Idle /\ cln = Idle /\ vld = Idle

\* One call classify_source(url, title, domain).
Classify ==
    /\ cls.pc = "ready"
    /\ LET r == classify_source(cls.url, cls.title, cls.domain)
       IN  cls' = [cls EXCEPT !.pc = "classified",
                              !.classification = r.classification,
                              !.confidence = r.confidence]
    /\ UNCHANGED <<ext, scr, rd, cmp, run, ana, rea, amb, rty, srch, cln, vld>>

NextClassify == Classify

SpecClassify == InitClassify /\ [][NextClassify]_vars

-----------------------------------------------------------------------------
(* Texts                                                                   *)
(*                                                                         *)
(* A text is a Python string, held as its list of tokens s.split(' '),     *)
(* run-length encoded: the run [tok |-> w, n |-> k] is k consecutive       *)
(* tokens w.  A token holds no space; it may hold other whitespace.  An    *)
(* empty token stands for the gap between two adjacent spaces (or a        *)
(* leading or trailing space).  The empty string is <<>>.                  *)

Run(tok, n) == [tok |-> tok, n |-> n]

RECURSIVE MergeRuns(_)
MergeRuns(t) ==
    IF Len(t) <= 1 THEN t
    ELSE LET r == MergeRuns(Tail(t))
         IN  IF Head(t).tok = Head(r).tok
             THEN <<Run(Head(t).tok, Head(t).n + Head(r).n)>> \o Tail(r)
             ELSE <<Head(t)>> \o r

\* The one representation of a string: equal runs merged, "" as <<>>.
Canon(t) ==
    LET m == MergeRuns(t) IN IF m = <<Run("", 1)>> THEN <<>> ELSE m

\* s.split(' '): the empty string splits into one empty token.
Toks(t) == IF t = <<>> THEN <<Run("", 1)>> ELSE t

\* ' '.join([a, b])
JoinSpace(a, b) == Canon(Toks(a) \o Toks(b))

\* a + b: the last token of a and the first token of b become one token.
Glue(a, b) ==
    IF a = <<>> THEN b
    ELSE IF b = <<>> THEN a
    ELSE LET la == a[Len(a)]
             fb == b[1]
             left  == IF la.n > 1 THEN SubSeq(a, 1, Len(a) - 1) \o <<Run(la.tok, la.n - 1)>>
                      ELSE SubSeq(a, 1, Len(a) - 1)
             right == IF fb.n > 1 THEN <<Run(fb.tok, fb.n - 1)>> \o Tail(b) ELSE Tail(b)
         IN  Canon(left \o <<Run(la.tok \o fb.tok, 1)>> \o right)

RECURSIVE Repeat(_, _)
\* n times the tokens t, one after the other
Repeat(t, n) == IF n = 0 THEN <<>> ELSE t \o Repeat(t, n - 1)

\* The strings ss as tokens.
TokRuns(ss) == [k \in 1..Len(ss) |-> Run(ss[k], 1)]

\* The text that holds the Python string s.
Text(s) == Canon(TokRuns(Split(s, " ")))

RECURSIVE SplitTokens(_, _)
\* The text t with every character of set made a space.
SplitTokens(t, set) ==
    IF t = <<>> THEN <<>>
    ELSE LET parts == Split(Head(t).tok, set)
         IN  (IF Len(parts) = 1 THEN <<Head(t)>> ELSE Repeat(TokRuns(parts), Head(t).n))
             \o SplitTokens(Tail(t), set)

\* s.split() of one token: its pieces between whitespace.
Pieces(s) == SelectSeq(Split(s, SpaceChars), LAMBDA piece : piece # "")

RECURSIVE WordCount(_)
\* len(text.split()): the number of pieces between whitespace.
WordCount(t) ==
    IF t = <<>> THEN 0
    ELSE Head(t).n * Len(Pieces(Head(t).tok)) + WordCount(Tail(t))

RECURSIVE StripLeft(_)
\* str.lstrip(): tokens of nothing but whitespace go, and the first other
\* token loses the whitespace it starts with.
StripLeft(t) ==
    IF t = <<>> THEN <<>>
    ELSE LET s == LStrip(Head(t).tok, SpaceChars)
         IN  IF s = "" THEN StripLeft(Tail(t))
             ELSE IF s = Head(t).tok THEN t
             ELSE <<Run(s, 1)>>
                  \o (IF Head(t).n > 1 THEN <<Run(Head(t).tok, Head(t).n - 1)>> ELSE <<>>)
                  \o Tail(t)

RECURSIVE StripRight(_)
\* str.rstrip()
StripRight(t) ==
    IF t = <<>> THEN <<>>
    ELSE LET last == t[Len(t)]
             init == SubSeq(t, 1, Len(t) - 1)
             s    == RStrip(last.tok, SpaceChars)
         IN  IF s = "" THEN StripRight(init)
             ELSE IF s = last.tok THEN t
             ELSE init
                  \o (IF last.n > 1 THEN <<Run(last.tok, last.n - 1)>> ELSE <<>>)
                  \o <<Run(s, 1)>>

\* str.strip()
Strip(t) == Canon(StripRight(StripLeft(t)))

-----------------------------------------------------------------------------
(* modules/scraper.py: extract_main_content                                *)
(*                                                                         *)
(* A parsed document is the sequence of its elements in document order.    *)
(* An element has a tag, a class and an id ("" when the attribute is       *)
(* absent), the string it holds before its first child (text), the string  *)
(* that follows it in its parent (tail) and the index of its parent (0 for *)
(* the root).  A string is a text; <<>> when there is none.                *)

Node(tag, class, id, text, tail, parent) ==
    [tag |-> tag, class |-> class, id |-> id, text |-> text, tail |-> tail,
     parent |-> parent]

UnwantedTags == {"script", "style", "nav", "header", "footer", "aside", "iframe", "noscript"}

RECURSIVE IsUnder(_, _, _)
\* Element j is element i or one of its descendants.
IsUnder(doc, j, i) ==
    IF j = 0 THEN FALSE
    ELSE IF j = i THEN TRUE
    ELSE IsUnder(doc, doc[j].parent, i)

\* element.decompose() for every unwanted element: what is left of the tree.
Alive(doc, j) ==
    ~ \E i \in 1..Len(doc) : doc[i].tag \in UnwantedTags /\ IsUnder(doc, j, i)

\* builder.string_containers: the elements whose strings are of a class of
\* their own (Script, Stylesheet, TemplateString, RubyTextString,
\* RubyParenthesisString) and not plain NavigableStrings.
StringContainers == {"script", "style", "template", "rt", "rp"}

RECURSIVE StringContainer(_, _)
\* The class of the strings whose parent is element j, named by the tag of
\* the string container that was open when they were parsed: the nearest one
\* among the element and its ancestors; "" for a plain NavigableString.
StringContainer(doc, j) ==
    IF j = 0 THEN ""
    ELSE IF doc[j].tag \in StringContainers THEN doc[j].tag
    ELSE StringContainer(doc, doc[j].parent)

\* element.interesting_string_types: the class of strings get_text of the
\* element keeps.
InterestingStrings(doc, i) == IF doc[i].tag \in StringContainers THEN doc[i].tag ELSE ""

RECURSIVE Strings(_, _, _)
RECURSIVE ChildStrings(_, _, _, _)
\* The strings under element i that element top finds interesting, in
\* document order: its own and then, child by child, those of the child and
\* the string that follows the child.
Strings(doc, top, i) ==
    (IF StringContainer(doc, i) = InterestingStrings(doc, top) THEN <<doc[i].text>> ELSE <<>>)
    \o ChildStrings(doc, top, i, i + 1)

\* The strings of the children of element i from element j on.  A child
\* that was decomposed has left the tree; the string after it has not.
ChildStrings(doc, top, i, j) ==
    IF j > Len(doc) THEN <<>>
    ELSE (IF doc[j].parent # i THEN <<>>
          ELSE (IF doc[j].tag \in UnwantedTags THEN <<>> ELSE Strings(doc, top, j))
               \o (IF StringContainer(doc, i) = InterestingStrings(doc, top)
                   THEN <<doc[j].tail>> ELSE <<>>))
         \o ChildStrings(doc, top, i, j + 1)

\* element._all_strings(): the strings under the element whose class is
\* among its interesting_string_types.
AllStrings(doc, i) == Strings(doc, i, i)

\* strip=True: every string is stripped, and dropped when nothing is left.
StrippedStrings(doc, i) ==
    LET ss == AllStrings(doc, i)
    IN  SelectSeq([k \in 1..Len(ss) |-> Strip(ss[k])], LAMBDA s : s # <<>>)

RECURSIVE ConcatAll(_)
ConcatAll(ss) == IF ss = <<>> THEN <<>> ELSE Head(ss) \o ConcatAll(Tail(ss))

RECURSIVE GlueAll(_)
GlueAll(ss) == IF ss = <<>> THEN <<>> ELSE Glue(Head(ss), GlueAll(Tail(ss)))

RECURSIVE JoinAll(_)
\* ' '.join(ss)
JoinAll(ss) ==
    IF ss = <<>> THEN <<>>
    ELSE IF Len(ss) = 1 THEN Head(ss)
    ELSE Canon(Toks(Head(ss)) \o Toks(JoinAll(Tail(ss))))

\* element.get_text(separator=' ', strip=True)
GetText(doc, i) == Canon(ConcatAll(StrippedStrings(doc, i)))

\* element.get_text(strip=True)
GetTextNoSep(doc, i) == GlueAll(StrippedStrings(doc, i))

\* soup.find_all(tag): the elements with the tag, in document order.
FindAllTag(doc, tag) ==
    SelectSeq([j \in 1..Len(doc) |-> j], LAMBDA j : Alive(doc, j) /\ doc[j].tag = tag)

content_indicators ==
    << "content", "article", "post", "entry", "text", "main", "body", "story", "page-content" >>

\* re.compile(indicator, re.I).search(value)
IndicatorMatches(value, indicator) == value # "" /\ Contains(ToLower(value), indicator)

\* soup.find_all(class_=re.compile(indicator, re.I))
FindAllClass(doc, indicator) ==
    SelectSeq([j \in 1..Len(doc) |-> j],
              LAMBDA j : Alive(doc, j) /\ IndicatorMatches(doc[j].class, indicator))

\* soup.find(id=re.compile(indicator, re.I)), as a list of at most one element
FindId(doc, indicator) ==
    LET all == SelectSeq([j \in 1..Len(doc) |-> j],
                         LAMBDA j : Alive(doc, j) /\ IndicatorMatches(doc[j].id, indicator))
    IN  IF all = <<>> THEN <<>> ELSE <<Head(all)>>

RECURSIVE Candidates3(_, _)
\* Strategy 3: the elements tried, in the order tried: for every indicator the
\* elements matching it by class, then the first element matching it by id.
Candidates3(doc, k) ==
    IF k > Len(content_indicators) THEN <<>>
    ELSE FindAllClass(doc, content_indicators[k]) \o FindId(doc, content_indicators[k])
         \o Candidates3(doc, k + 1)

\* len(text.split()) > config.MIN_WORD_COUNT
Accepts(text) == WordCount(text) > MIN_WORD_COUNT

\* What a strategy hands back: a text, or nothing (the cascade goes on).
Found(text) == [ok |-> TRUE, text |-> text]
Nothing == [ok |-> FALSE, text |-> <<>>]

\* Strategy 1: the <article> element.
Strategy1(doc) ==
    LET found == FindAllTag(doc, "article")
    IN  IF found # <<>> /\ Accepts(GetText(doc, Head(found)))
        THEN Found(GetText(doc, Head(found))) ELSE Nothing

\* Strategy 2: the <main> element.
Strategy2(doc) ==
    LET found == FindAllTag(doc, "main")
    IN  IF found # <<>> /\ Accepts(GetText(doc, Head(found)))
        THEN Found(GetText(doc, Head(found))) ELSE Nothing

\* Strategy 3: the first accepted element among the class and id matches.
Strategy3(doc) ==
    LET ok == SelectSeq(Candidates3(doc, 1), LAMBDA j : Accepts(GetText(doc, j)))
    IN  IF ok # <<>> THEN Found(GetText(doc, Head(ok))) ELSE Nothing

\* body.find_all('p'): the paragraphs under the first <body>.
Paragraphs(doc) ==
    LET body == FindAllTag(doc, "body")
    IN  IF body = <<>> THEN <<>>
        ELSE SelectSeq(FindAllTag(doc, "p"),
                       LAMBDA j : j # Head(body) /\ IsUnder(doc, j, Head(body)))

\* ' '.join([p.get_text(strip=True) for p in paragraphs])
ParagraphText(doc) ==
    LET ps == Paragraphs(doc)
    IN  JoinAll([k \in 1..Len(ps) |-> GetTextNoSep(doc, ps[k])])

\* Strategy 4: the texts of all paragraphs of the body, joined.
Strategy4(doc) ==
    IF Paragraphs(doc) # <<>> /\ Accepts(ParagraphText(doc))
    THEN Found(ParagraphText(doc)) ELSE Nothing

\* Strategy 5: all text of the body, whatever its length; nothing (None) when
\* it is empty or there is no body.
Strategy5(doc) ==
    LET body == FindAllTag(doc, "body")
    IN  IF body # <<>> /\ GetText(doc, Head(body)) # <<>>
        THEN Found(GetText(doc, Head(body))) ELSE Nothing

StrategyResult(doc, k) ==
    CASE k = 1 -> Strategy1(doc)
      [] k = 2 -> Strategy2(doc)
      [] k = 3 -> Strategy3(doc)
      [] k = 4 -> Strategy4(doc)
      [] k = 5 -> Strategy5(doc)

RECURSIVE Cascade(_, _)
Cascade(doc, k) ==
    IF k = 5 \/ StrategyResult(doc, k).ok THEN StrategyResult(doc, k)
    ELSE Cascade(doc, k + 1)

\* extract_main_content(soup): the extracted text, or nothing (None).
extract_main_content(doc) == Cascade(doc, 1)

(* Documents.  A slot is <<>> (the element is absent) or the text the      *)
(* element holds.                                                          *)

Words(tok, n) == <<Run(tok, n)>>

\* A string with blanks around it; a string of nothing but blanks.
Padded(text) == <<Run("", 1), Run("\n", 1)>> \o text \o <<Run("\t", 1), Run("", 1)>>
Blank == <<Run("\n", 1), Run("", 2)>>

\* The element in the <article>: a plain one, or one whose strings are of a
\* class of their own.
InlineTags == {"b", "template", "rt"}

\* <html><body> <nav>..</nav> [<article>..<b>..</b></article>] [<main>..</main>]
\* [<div class= / id=>..</div>] [<p>..<b>..</b>..</p> <p></p>] </body></html>
\* or, without a body, the same under <head>, with <section> for <div> and
\* the paragraphs in a <section>: the parser leaves the elements it does not
\* know (nav, article, main, section) in the head they were written in and
\* implies no body then.  After a <template> or <rt> in the article a word
\* follows.  In a document with blanks the strings have blanks around them,
\* a blank string follows every element, and text follows the <b> of the
\* paragraph.
MkDoc(hasBody, blanks, inl, art, mn, div, par) ==
    LET top  == 2
        s(text) == IF blanks THEN Padded(text) ELSE text
        gap  == IF blanks THEN Blank ELSE <<>>
        box  == IF hasBody THEN "div" ELSE "section"
        head == <<Node("html", "", "", gap, <<>>, 0),
                  Node(IF hasBody THEN "body" ELSE "head", "", "", gap, gap, 1),
                  Node("nav", "top-content", "", Words("n", MIN_WORD_COUNT + 10), gap, top)>>
        n1   == Len(head)
        a    == IF art = <<>> THEN <<>>
                ELSE <<Node("article", "", "", s(art), gap, top),
                       Node(inl, "", "", s(Words("b", 1)),
                            IF inl = "b" THEN gap ELSE s(Words("u", 1)), n1 + 1)>>
        n2   == n1 + Len(a)
        m    == IF mn = <<>> THEN <<>> ELSE <<Node("main", "", "", s(mn), gap, top)>>
        d    == IF div = <<>> THEN <<>>
                ELSE IF div[1].tok = "i"
                THEN <<Node(box, "", "Main-Story", s(div), gap, top)>>
                ELSE <<Node(box, "Post-Body", "", s(div), gap, top)>>
        n4   == n2 + Len(m) + Len(d)
        wrap == IF hasBody THEN <<>> ELSE <<Node("section", "", "", gap, gap, top)>>
        n5   == n4 + Len(wrap)
        over == IF hasBody THEN top ELSE n5
        p    == IF par = <<>> THEN <<>>
                ELSE wrap
                     \o <<Node("p", "", "", s(par), gap, over),
                          Node("b", "", "", s(Words("b", 1)),
                               IF blanks THEN Padded(Words("t", 1)) ELSE <<>>, n5 + 1),
                          Node("p", "", "", gap, gap, over)>>
    IN  head \o a \o m \o d \o p

ArticleSlots == { <<>>, Words("a", MIN_WORD_COUNT - 1), Words("a", MIN_WORD_COUNT) }
MainSlots    == { <<>>, Words("m", MIN_WORD_COUNT), Words("m", MIN_WORD_COUNT + 1) }
DivSlots     == { <<>>, Words("c", MIN_WORD_COUNT), Words("c", MIN_WORD_COUNT + 1),
                  Words("i", MIN_WORD_COUNT + 1) }
ParaSlots    == { <<>>, Words("p", 1), Words("p", MIN_WORD_COUNT),
                  Words("p", MIN_WORD_COUNT + 1) }

\* The documents handed to extract_main_content: with the content under a
\* <body>; with the content under a <head> and no <body>; of an empty
\* response, no element at all.
ExtractDocs ==
    { MkDoc(b, w, i, a, m, d, p) : b \in BOOLEAN, w \in BOOLEAN, i \in InlineTags,
                                   a \in ArticleSlots, m \in MainSlots, d \in DivSlots,
                                   p \in ParaSlots }
    \cup { <<>> }

InitExtract ==
    /\ ext \in [pc : {1}, done : {FALSE}, doc : ExtractDocs, consulted : {<<>>},
                result : {Nothing}]
    /\ cls = Idle /\ scr = Idle /\ rd = Idle /\ cmp = Idle /\ run = Idle /\ ana = Idle /\ rea = Idle
    /\ amb = Idle /\ rty = Idle /\ srch = Idle /\ cln = Idle /\ vld = Idle

\* A variant of the cascade without the returns of strategies 1 to 4: every
\* strategy is consulted and the text of the last one that yields a text is
\* the result.
TryStrategyNoShortCircuit(k) ==
    /\ ext.pc = k /\ ~ ext.done
    /\ LET r == StrategyResult(ext.doc, k)
       IN  ext' = [ext EXCEPT !.consulted = Append(@, k),
                              !.result = IF r.ok THEN r ELSE @,
                              !.done = (k = 5),
                              !.pc = IF k = 5 THEN k ELSE k + 1]
    /\ UNCHANGED <<cls, scr, rd, cmp, run, ana, rea, amb, rty, srch, cln, vld>>

\* extract_main_content at strategy k: it returns the strategy's text, or goes
\* on to strategy k + 1; strategy 5 returns in either case.
TryStrategy(k) ==
    /\ ext.pc = k /\ ~ ext.done
    /\ LET r == StrategyResult(ext.doc, k)
       IN  ext' = [ext EXCEPT !.consulted = Append(@, k),
                              !.result = r,
                              !.done = (r.ok \/ k = 5),
                              !.pc = IF r.ok \/ k = 5 THEN k ELSE k + 1]
    /\ UNCHANGED <<cls, scr, rd, cmp, run, ana, rea, amb, rty, srch, cln, vld>>

TryArticle == TryStrategy(1)
TryMain == TryStrategy(2)
TryIndicators == TryStrategy(3)
TryParagraphs == TryStrategy(4)
TryBody == TryStrategy(5)

NextExtract == TryArticle \/ TryMain \/ TryIndicators \/ TryParagraphs \/ TryBody

SpecExtract == InitExtract /\ [][NextExtract]_vars

-----------------------------------------------------------------------------
(* modules/scraper.py: clean_text                                          *)
(*                                                                         *)
(* No step of clean_text but the whitespace steps matches across a space,  *)
(* so the entity, URL, e-mail and special-character steps are computed     *)
(* token by token, each on the string the token holds.                     *)

\* html.entities.html5: the names whose character the model can write, each with
\* its value.
Html5 ==
    << <<"AElig", "Æ">>, <<"AElig;", "Æ">>, <<"AMP", "&">>, <<"AMP;", "&">>, <<"Aacute", "Á">>,
       <<"Aacute;", "Á">>, <<"Acirc", "Â">>, <<"Acirc;", "Â">>, <<"Agrave", "À">>,
       <<"Agrave;", "À">>, <<"Alpha;", "Α">>, <<"Aring", "Å">>, <<"Aring;", "Å">>,
       <<"Atilde", "Ã">>, <<"Atilde;", "Ã">>, <<"Auml", "Ä">>, <<"Auml;", "Ä">>,
       <<"Barv;", "⫧">>, <<"Beta;", "Β">>, <<"Breve;", "˘">>, <<"COPY", "©">>, <<"COPY;", "©">>,
       <<"Cap;", "⋒">>, <<"Ccedil", "Ç">>, <<"Ccedil;", "Ç">>, <<"Cedilla;", "¸">>,
       <<"CenterDot;", "·">>, <<"Chi;", "Χ">>, <<"CircleDot;", "⊙">>, <<"CircleMinus;", "⊖">>,
       <<"CirclePlus;", "⊕">>, <<"CircleTimes;", "⊗">>, <<"Cup;", "⋓">>, <<"Darr;", "↡">>,
       <<"Dashv;", "⫤">>, <<"Delta;", "Δ">>, <<"DiacriticalAcute;", "´">>,
       <<"DiacriticalDot;", "˙">>, <<"DiacriticalDoubleAcute;", "˝">>,
       <<"DiacriticalTilde;", "˜">>, <<"Diamond;", "⋄">>, <<"Dot;", "¨">>, <<"DotDot;", "⃜">>,
       <<"DoubleDot;", "¨">>, <<"DoubleDownArrow;", "⇓">>, <<"DoubleLeftArrow;", "⇐">>,
       <<"DoubleLeftRightArrow;", "⇔">>, <<"DoubleLeftTee;", "⫤">>,
       <<"DoubleLongLeftArrow;", "⟸">>, <<"DoubleLongLeftRightArrow;", "⟺">>,
       <<"DoubleLongRightArrow;", "⟹">>, <<"DoubleRightArrow;", "⇒">>,
       <<"DoubleRightTee;", "⊨">>, <<"DoubleUpArrow;", "⇑">>, <<"DoubleUpDownArrow;", "⇕">>,
       <<"DownArrow;", "↓">>, <<"DownArrowUpArrow;", "⇵">>, <<"DownLeftVector;", "↽">>,
       <<"DownRightVector;", "⇁">>, <<"DownTee;", "⊤">>, <<"DownTeeArrow;", "↧">>,
       <<"Downarrow;", "⇓">>, <<"ETH", "Ð">>, <<"ETH;", "Ð">>, <<"Eacute", "É">>,
       <<"Eacute;", "É">>, <<"Ecirc", "Ê">>, <<"Ecirc;", "Ê">>, <<"Egrave", "È">>,
       <<"Egrave;", "È">>, <<"EmptySmallSquare;", "◻">>, <<"EmptyVerySmallSquare;", "▫">>,
       <<"Epsilon;", "Ε">>, <<"Equilibrium;", "⇌">>, <<"Eta;", "Η">>, <<"Euml", "Ë">>,
       <<"Euml;", "Ë">>, <<"FilledSmallSquare;", "◼">>, <<"FilledVerySmallSquare;", "▪">>,
       <<"GT", ">">>, <<"GT;", ">">>, <<"Gamma;", "Γ">>, <<"Gammad;", "Ϝ">>, <<"Gg;", "⋙">>,
       <<"GreaterEqualLess;", "⋛">>, <<"GreaterGreater;", "⪢">>, <<"Hacek;", "ˇ">>,
       <<"Hat;", "^">>, <<"Iacute", "Í">>, <<"Iacute;", "Í">>, <<"Icirc", "Î">>,
       <<"Icirc;", "Î">>, <<"Igrave", "Ì">>, <<"Igrave;", "Ì">>, <<"Implies;", "⇒">>,
       <<"Intersection;", "⋂">>, <<"Iota;", "Ι">>, <<"Iuml", "Ï">>, <<"Iuml;", "Ï">>,
       <<"Kappa;", "Κ">>, <<"LT", "<">>, <<"LT;", "<">>, <<"Lambda;", "Λ">>, <<"Lang;", "⟪">>,
       <<"Larr;", "↞">>, <<"LeftAngleBracket;", "⟨">>, <<"LeftArrow;", "←">>,
       <<"LeftArrowBar;", "⇤">>, <<"LeftArrowRightArrow;", "⇆">>, <<"LeftDoubleBracket;", "⟦">>,
       <<"LeftDownVector;", "⇃">>, <<"LeftRightArrow;", "↔">>, <<"LeftTee;", "⊣">>,
       <<"LeftTeeArrow;", "↤">>, <<"LeftTriangle;", "⊲">>, <<"LeftTriangleBar;", "⧏">>,
       <<"LeftTriangleEqual;", "⊴">>, <<"LeftUpVector;", "↿">>, <<"LeftVector;", "↼">>,
       <<"Leftarrow;", "⇐">>, <<"Leftrightarrow;", "⇔">>, <<"LessEqualGreater;", "⋚">>,
       <<"LessLess;", "⪡">>, <<"Ll;", "⋘">>, <<"Lleftarrow;", "⇚">>, <<"LongLeftArrow;", "⟵">>,
       <<"LongLeftRightArrow;", "⟷">>, <<"LongRightArrow;", "⟶">>, <<"Longleftarrow;", "⟸">>,
       <<"Longleftrightarrow;", "⟺">>, <<"Longrightarrow;", "⟹">>, <<"LowerLeftArrow;", "↙">>,
       <<"LowerRightArrow;", "↘">>, <<"Lsh;", "↰">>, <<"Mu;", "Μ">>, <<"NewLine;", "\n">>,
       <<"NonBreakingSpace;", " ">>, <<"Not;", "⫬">>, <<"NotLeftTriangle;", "⋪">>,
       <<"NotLeftTriangleEqual;", "⋬">>, <<"NotPrecedes;", "⊀">>,
       <<"NotPrecedesSlantEqual;", "⋠">>, <<"NotRightTriangle;", "⋫">>,
       <<"NotRightTriangleEqual;", "⋭">>, <<"NotSquareSubsetEqual;", "⋢">>,
       <<"NotSquareSupersetEqual;", "⋣">>, <<"NotSubset;", "⊂⃒">>, <<"NotSubsetEqual;", "⊈">>,
       <<"NotSucceeds;", "⊁">>, <<"NotSucceedsSlantEqual;", "⋡">>, <<"NotSuperset;", "⊃⃒">>,
       <<"NotSupersetEqual;", "⊉">>, <<"Ntilde", "Ñ">>, <<"Ntilde;", "Ñ">>, <<"Nu;", "Ν">>,
       <<"Oacute", "Ó">>, <<"Oacute;", "Ó">>, <<"Ocirc", "Ô">>, <<"Ocirc;", "Ô">>,
       <<"Ograve", "Ò">>, <<"Ograve;", "Ò">>, <<"Omega;", "Ω">>, <<"Omicron;", "Ο">>,
       <<"Oslash", "Ø">>, <<"Oslash;", "Ø">>, <<"Otilde", "Õ">>, <<"Otilde;", "Õ">>,
       <<"Ouml", "Ö">>, <<"Ouml;", "Ö">>, <<"OverBrace;", "⏞">>, <<"OverBracket;", "⎴">>,
       <<"OverParenthesis;", "⏜">>, <<"Phi;", "Φ">>, <<"Pi;", "Π">>, <<"PlusMinus;", "±">>,
       <<"Pr;", "⪻">>, <<"PrecedesEqual;", "⪯">>, <<"Psi;", "Ψ">>, <<"QUOT", "\"">>,
       <<"QUOT;", "\"">>, <<"REG", "®">>, <<"REG;", "®">>, <<"Rang;", "⟫">>, <<"Rarr;", "↠">>,
       <<"ReverseEquilibrium;", "⇋">>, <<"Rho;", "Ρ">>, <<"RightAngleBracket;", "⟩">>,
       <<"RightArrow;", "→">>, <<"RightArrowBar;", "⇥">>, <<"RightArrowLeftArrow;", "⇄">>,
       <<"RightDoubleBracket;", "⟧">>, <<"RightDownVector;", "⇂">>, <<"RightTee;", "⊢">>,
       <<"RightTeeArrow;", "↦">>, <<"RightTriangle;", "⊳">>, <<"RightTriangleBar;", "⧐">>,
       <<"RightTriangleEqual;", "⊵">>, <<"RightUpVector;", "↾">>, <<"RightVector;", "⇀">>,
       <<"Rightarrow;", "⇒">>, <<"Rrightarrow;", "⇛">>, <<"Rsh;", "↱">>, <<"RuleDelayed;", "⧴">>,
       <<"Sc;", "⪼">>, <<"ShortDownArrow;", "↓">>, <<"ShortLeftArrow;", "←">>,
       <<"ShortRightArrow;", "→">>, <<"ShortUpArrow;", "↑">>, <<"Sigma;", "Σ">>,
       <<"Square;", "□">>, <<"SquareIntersection;", "⊓">>, <<"SquareSubset;", "⊏">>,
       <<"SquareSubsetEqual;", "⊑">>, <<"SquareSuperset;", "⊐">>,
       <<"SquareSupersetEqual;", "⊒">>, <<"SquareUnion;", "⊔">>, <<"Star;", "⋆">>,
       <<"Sub;", "⋐">>, <<"Subset;", "⋐">>, <<"SubsetEqual;", "⊆">>, <<"SucceedsEqual;", "⪰">>,
       <<"Sup;", "⋑">>, <<"Superset;", "⊃">>, <<"SupersetEqual;", "⊇">>, <<"Supset;", "⋑">>,
       <<"THORN", "Þ">>, <<"THORN;", "Þ">>, <<"Tab;", "\t">>, <<"Tau;", "Τ">>, <<"Theta;", "Θ">>,
       <<"TripleDot;", "⃛">>, <<"Uacute", "Ú">>, <<"Uacute;", "Ú">>, <<"Uarr;", "↟">>,
       <<"Ucirc", "Û">>, <<"Ucirc;", "Û">>, <<"Ugrave", "Ù">>, <<"Ugrave;", "Ù">>,
       <<"UnderBar;", "_">>, <<"UnderBrace;", "⏟">>, <<"UnderBracket;", "⎵">>,
       <<"UnderParenthesis;", "⏝">>, <<"Union;", "⋃">>, <<"UnionPlus;", "⊎">>,
       <<"UpArrow;", "↑">>, <<"UpArrowDownArrow;", "⇅">>, <<"UpDownArrow;", "↕">>,
       <<"UpTee;", "⊥">>, <<"UpTeeArrow;", "↥">>, <<"Uparrow;", "⇑">>, <<"Updownarrow;", "⇕">>,
       <<"UpperLeftArrow;", "↖">>, <<"UpperRightArrow;", "↗">>, <<"Upsi;", "ϒ">>,
       <<"Upsilon;", "Υ">>, <<"Uuml", "Ü">>, <<"Uuml;", "Ü">>, <<"VDash;", "⊫">>,
       <<"Vbar;", "⫫">>, <<"Vdash;", "⊩">>, <<"Vdashl;", "⫦">>, <<"Vee;", "⋁">>,
       <<"VerticalLine;", "|">>, <<"Vvdash;", "⊪">>, <<"Wedge;", "⋀">>, <<"Xi;", "Ξ">>,
       <<"Yacute", "Ý">>, <<"Yacute;", "Ý">>, <<"Zeta;", "Ζ">>, <<"aacute", "á">>,
       <<"aacute;", "á">>, <<"acirc", "â">>, <<"acirc;", "â">>, <<"acute", "´">>,
       <<"acute;", "´">>, <<"aelig", "æ">>, <<"aelig;", "æ">>, <<"agrave", "à">>,
       <<"agrave;", "à">>, <<"alpha;", "α">>, <<"amp", "&">>, <<"amp;", "&">>, <<"ange;", "⦤">>,
       <<"angmsdaa;", "⦨">>, <<"angmsdab;", "⦩">>, <<"angmsdac;", "⦪">>, <<"angmsdad;", "⦫">>,
       <<"angmsdae;", "⦬">>, <<"angmsdaf;", "⦭">>, <<"angmsdag;", "⦮">>, <<"angmsdah;", "⦯">>,
       <<"angrtvb;", "⊾">>, <<"angrtvbd;", "⦝">>, <<"angst;", "Å">>, <<"apos;", "'">>,
       <<"aring", "å">>, <<"aring;", "å">>, <<"ast;", "*">>, <<"atilde", "ã">>,
       <<"atilde;", "ã">>, <<"auml", "ä">>, <<"auml;", "ä">>, <<"bNot;", "⫭">>,
       <<"backepsilon;", "϶">>, <<"backsimeq;", "⋍">>, <<"barvee;", "⊽">>, <<"bbrk;", "⎵">>,
       <<"bbrktbrk;", "⎶">>, <<"bemptyv;", "⦰">>, <<"bepsi;", "϶">>, <<"beta;", "β">>,
       <<"bigcap;", "⋂">>, <<"bigcirc;", "◯">>, <<"bigcup;", "⋃">>, <<"bigtriangledown;", "▽">>,
       <<"bigtriangleup;", "△">>, <<"bigvee;", "⋁">>, <<"bigwedge;", "⋀">>,
       <<"blacklozenge;", "⧫">>, <<"blacksquare;", "▪">>, <<"blacktriangle;", "▴">>,
       <<"blacktriangledown;", "▾">>, <<"blacktriangleleft;", "◂">>,
       <<"blacktriangleright;", "▸">>, <<"blk12;", "▒">>, <<"blk14;", "░">>, <<"blk34;", "▓">>,
       <<"block;", "█">>, <<"bne;", "=⃥">>, <<"bot;", "⊥">>, <<"bottom;", "⊥">>,
       <<"bowtie;", "⋈">>, <<"boxbox;", "⧉">>, <<"boxminus;", "⊟">>, <<"boxplus;", "⊞">>,
       <<"boxtimes;", "⊠">>, <<"breve;", "˘">>, <<"brvbar", "¦">>, <<"brvbar;", "¦">>,
       <<"bsime;", "⋍">>, <<"bsol;", "\\">>, <<"bsolb;", "⧅">>, <<"bsolhsub;", "⟈">>,
       <<"bumpE;", "⪮">>, <<"caron;", "ˇ">>, <<"ccedil", "ç">>, <<"ccedil;", "ç">>,
       <<"cedil", "¸">>, <<"cedil;", "¸">>, <<"cemptyv;", "⦲">>, <<"cent", "¢">>,
       <<"cent;", "¢">>, <<"centerdot;", "·">>, <<"chi;", "χ">>, <<"cir;", "○">>,
       <<"cirE;", "⧃">>, <<"circ;", "ˆ">>, <<"circlearrowleft;", "↺">>,
       <<"circlearrowright;", "↻">>, <<"circledR;", "®">>, <<"circledast;", "⊛">>,
       <<"circledcirc;", "⊚">>, <<"circleddash;", "⊝">>, <<"cirmid;", "⫯">>, <<"cirscir;", "⧂">>,
       <<"colon;", ":">>, <<"comma;", ",">>, <<"commat;", "@">>, <<"copy", "©">>,
       <<"copy;", "©">>, <<"crarr;", "↵">>, <<"csub;", "⫏">>, <<"csube;", "⫑">>,
       <<"csup;", "⫐">>, <<"csupe;", "⫒">>, <<"ctdot;", "⋯">>, <<"cuepr;", "⋞">>,
       <<"cuesc;", "⋟">>, <<"cularr;", "↶">>, <<"cupdot;", "⊍">>, <<"curarr;", "↷">>,
       <<"curlyeqprec;", "⋞">>, <<"curlyeqsucc;", "⋟">>, <<"curlyvee;", "⋎">>,
       <<"curlywedge;", "⋏">>, <<"curren", "¤">>, <<"curren;", "¤">>, <<"curvearrowleft;", "↶">>,
       <<"curvearrowright;", "↷">>, <<"cuvee;", "⋎">>, <<"cuwed;", "⋏">>, <<"dArr;", "⇓">>,
       <<"darr;", "↓">>, <<"dashv;", "⊣">>, <<"dblac;", "˝">>, <<"ddarr;", "⇊">>, <<"deg", "°">>,
       <<"deg;", "°">>, <<"delta;", "δ">>, <<"demptyv;", "⦱">>, <<"dharl;", "⇃">>,
       <<"dharr;", "⇂">>, <<"diam;", "⋄">>, <<"diamond;", "⋄">>, <<"die;", "¨">>,
       <<"digamma;", "ϝ">>, <<"disin;", "⋲">>, <<"div;", "÷">>, <<"divide", "÷">>,
       <<"divide;", "÷">>, <<"divideontimes;", "⋇">>, <<"divonx;", "⋇">>, <<"dollar;", "$">>,
       <<"dot;", "˙">>, <<"dotsquare;", "⊡">>, <<"downarrow;", "↓">>, <<"downdownarrows;", "⇊">>,
       <<"downharpoonleft;", "⇃">>, <<"downharpoonright;", "⇂">>, <<"dsol;", "⧶">>,
       <<"dtdot;", "⋱">>, <<"dtri;", "▿">>, <<"dtrif;", "▾">>, <<"duarr;", "⇵">>,
       <<"dwangle;", "⦦">>, <<"dzigrarr;", "⟿">>, <<"eacute", "é">>, <<"eacute;", "é">>,
       <<"ecirc", "ê">>, <<"ecirc;", "ê">>, <<"eg;", "⪚">>, <<"egrave", "è">>,
       <<"egrave;", "è">>, <<"egs;", "⪖">>, <<"egsdot;", "⪘">>, <<"el;", "⪙">>,
       <<"elinters;", "⏧">>, <<"els;", "⪕">>, <<"elsdot;", "⪗">>, <<"epar;", "⋕">>,
       <<"eparsl;", "⧣">>, <<"epsi;", "ε">>, <<"epsilon;", "ε">>, <<"epsiv;", "ϵ">>,
       <<"eqslantgtr;", "⪖">>, <<"eqslantless;", "⪕">>, <<"equals;", "=">>, <<"eqvparsl;", "⧥">>,
       <<"eta;", "η">>, <<"eth", "ð">>, <<"eth;", "ð">>, <<"euml", "ë">>, <<"euml;", "ë">>,
       <<"euro;", "€">>, <<"excl;", "!">>, <<"fjlig;", "fj">>, <<"fltns;", "▱">>,
       <<"fnof;", "ƒ">>, <<"fork;", "⋔">>, <<"forkv;", "⫙">>, <<"frac12", "½">>,
       <<"frac12;", "½">>, <<"frac14", "¼">>, <<"frac14;", "¼">>, <<"frac34", "¾">>,
       <<"frac34;", "¾">>, <<"gEl;", "⪌">>, <<"gacute;", "ǵ">>, <<"gamma;", "γ">>,
       <<"gammad;", "ϝ">>, <<"gap;", "⪆">>, <<"gel;", "⋛">>, <<"gescc;", "⪩">>,
       <<"gesdot;", "⪀">>, <<"gesdoto;", "⪂">>, <<"gesdotol;", "⪄">>, <<"gesles;", "⪔">>,
       <<"ggg;", "⋙">>, <<"glE;", "⪒">>, <<"gla;", "⪥">>, <<"glj;", "⪤">>, <<"gnap;", "⪊">>,
       <<"gnapprox;", "⪊">>, <<"gne;", "⪈">>, <<"gneq;", "⪈">>, <<"gnsim;", "⋧">>,
       <<"gsime;", "⪎">>, <<"gsiml;", "⪐">>, <<"gt", ">">>, <<"gt;", ">">>, <<"gtcc;", "⪧">>,
       <<"gtdot;", "⋗">>, <<"gtlPar;", "⦕">>, <<"gtrapprox;", "⪆">>, <<"gtrdot;", "⋗">>,
       <<"gtreqless;", "⋛">>, <<"gtreqqless;", "⪌">>, <<"hArr;", "⇔">>, <<"half;", "½">>,
       <<"harr;", "↔">>, <<"harrw;", "↭">>, <<"hercon;", "⊹">>, <<"hoarr;", "⇿">>,
       <<"hookleftarrow;", "↩">>, <<"hookrightarrow;", "↪">>, <<"iacute", "í">>,
       <<"iacute;", "í">>, <<"icirc", "î">>, <<"icirc;", "î">>, <<"iexcl", "¡">>,
       <<"iexcl;", "¡">>, <<"iff;", "⇔">>, <<"igrave", "ì">>, <<"igrave;", "ì">>,
       <<"iinfin;", "⧜">>, <<"imof;", "⊷">>, <<"infintie;", "⧝">>, <<"intcal;", "⊺">>,
       <<"intercal;", "⊺">>, <<"iota;", "ι">>, <<"iquest", "¿">>, <<"iquest;", "¿">>,
       <<"isinE;", "⋹">>, <<"isindot;", "⋵">>, <<"isins;", "⋴">>, <<"isinsv;", "⋳">>,
       <<"iuml", "ï">>, <<"iuml;", "ï">>, <<"kappa;", "κ">>, <<"kappav;", "ϰ">>,
       <<"lAarr;", "⇚">>, <<"lArr;", "⇐">>, <<"lEg;", "⪋">>, <<"laemptyv;", "⦴">>,
       <<"lambda;", "λ">>, <<"lang;", "⟨">>, <<"langd;", "⦑">>, <<"langle;", "⟨">>,
       <<"lap;", "⪅">>, <<"laquo", "«">>, <<"laquo;", "«">>, <<"larr;", "←">>, <<"larrb;", "⇤">>,
       <<"larrhk;", "↩">>, <<"larrlp;", "↫">>, <<"larrtl;", "↢">>, <<"lat;", "⪫">>,
       <<"late;", "⪭">>, <<"lbrace;", "{">>, <<"lbrack;", "[">>, <<"lbrke;", "⦋">>,
       <<"lbrksld;", "⦏">>, <<"lbrkslu;", "⦍">>, <<"lcub;", "{">>, <<"ldsh;", "↲">>,
       <<"leftarrow;", "←">>, <<"leftarrowtail;", "↢">>, <<"leftharpoondown;", "↽">>,
       <<"leftharpoonup;", "↼">>, <<"leftleftarrows;", "⇇">>, <<"leftrightarrow;", "↔">>,
       <<"leftrightarrows;", "⇆">>, <<"leftrightharpoons;", "⇋">>,
       <<"leftrightsquigarrow;", "↭">>, <<"leftthreetimes;", "⋋">>, <<"leg;", "⋚">>,
       <<"lescc;", "⪨">>, <<"lesdoto;", "⪁">>, <<"lesdotor;", "⪃">>, <<"lesges;", "⪓">>,
       <<"lessapprox;", "⪅">>, <<"lessdot;", "⋖">>, <<"lesseqgtr;", "⋚">>,
       <<"lesseqqgtr;", "⪋">>, <<"lgE;", "⪑">>, <<"lhard;", "↽">>, <<"lharu;", "↼">>,
       <<"lhblk;", "▄">>, <<"llarr;", "⇇">>, <<"lltri;", "◺">>, <<"lmoust;", "⎰">>,
       <<"lmoustache;", "⎰">>, <<"lnap;", "⪉">>, <<"lnapprox;", "⪉">>, <<"lne;", "⪇">>,
       <<"lneq;", "⪇">>, <<"lnsim;", "⋦">>, <<"loang;", "⟬">>, <<"loarr;", "⇽">>,
       <<"lobrk;", "⟦">>, <<"longleftarrow;", "⟵">>, <<"longleftrightarrow;", "⟷">>,
       <<"longmapsto;", "⟼">>, <<"longrightarrow;", "⟶">>, <<"looparrowleft;", "↫">>,
       <<"looparrowright;", "↬">>, <<"lopar;", "⦅">>, <<"lowbar;", "_">>, <<"loz;", "◊">>,
       <<"lozenge;", "◊">>, <<"lozf;", "⧫">>, <<"lpar;", "(">>, <<"lparlt;", "⦓">>,
       <<"lrarr;", "⇆">>, <<"lrhar;", "⇋">>, <<"lrtri;", "⊿">>, <<"lsh;", "↰">>,
       <<"lsime;", "⪍">>, <<"lsimg;", "⪏">>, <<"lsqb;", "[">>, <<"lt", "<">>, <<"lt;", "<">>,
       <<"ltcc;", "⪦">>, <<"ltdot;", "⋖">>, <<"lthree;", "⋋">>, <<"ltimes;", "⋉">>,
       <<"ltrPar;", "⦖">>, <<"ltri;", "◃">>, <<"ltrie;", "⊴">>, <<"ltrif;", "◂">>,
       <<"macr", "¯">>, <<"macr;", "¯">>, <<"map;", "↦">>, <<"mapsto;", "↦">>,
       <<"mapstodown;", "↧">>, <<"mapstoleft;", "↤">>, <<"mapstoup;", "↥">>, <<"marker;", "▮">>,
       <<"micro", "µ">>, <<"micro;", "µ">>, <<"midast;", "*">>, <<"midcir;", "⫰">>,
       <<"middot", "·">>, <<"middot;", "·">>, <<"minusb;", "⊟">>, <<"mlcp;", "⫛">>,
       <<"models;", "⊧">>, <<"mu;", "μ">>, <<"multimap;", "⊸">>, <<"mumap;", "⊸">>,
       <<"nLeftarrow;", "⇍">>, <<"nLeftrightarrow;", "⇎">>, <<"nRightarrow;", "⇏">>,
       <<"nVDash;", "⊯">>, <<"nVdash;", "⊮">>, <<"nbsp", " ">>, <<"nbsp;", " ">>,
       <<"neArr;", "⇗">>, <<"nearr;", "↗">>, <<"nearrow;", "↗">>, <<"nhArr;", "⇎">>,
       <<"nharr;", "↮">>, <<"nhpar;", "⫲">>, <<"nis;", "⋼">>, <<"nisd;", "⋺">>,
       <<"nlArr;", "⇍">>, <<"nlarr;", "↚">>, <<"nleftarrow;", "↚">>, <<"nleftrightarrow;", "↮">>,
       <<"nltri;", "⋪">>, <<"nltrie;", "⋬">>, <<"not", "¬">>, <<"not;", "¬">>,
       <<"notinvb;", "⋷">>, <<"notinvc;", "⋶">>, <<"notnivb;", "⋾">>, <<"notnivc;", "⋽">>,
       <<"nparsl;", "⫽⃥">>, <<"npr;", "⊀">>, <<"nprcue;", "⋠">>, <<"nprec;", "⊀">>,
       <<"nrArr;", "⇏">>, <<"nrarr;", "↛">>, <<"nrightarrow;", "↛">>, <<"nrtri;", "⋫">>,
       <<"nrtrie;", "⋭">>, <<"nsc;", "⊁">>, <<"nsccue;", "⋡">>, <<"nsqsube;", "⋢">>,
       <<"nsqsupe;", "⋣">>, <<"nsub;", "⊄">>, <<"nsube;", "⊈">>, <<"nsubset;", "⊂⃒">>,
       <<"nsubseteq;", "⊈">>, <<"nsucc;", "⊁">>, <<"nsup;", "⊅">>, <<"nsupe;", "⊉">>,
       <<"nsupset;", "⊃⃒">>, <<"nsupseteq;", "⊉">>, <<"ntilde", "ñ">>, <<"ntilde;", "ñ">>,
       <<"ntriangleleft;", "⋪">>, <<"ntrianglelefteq;", "⋬">>, <<"ntriangleright;", "⋫">>,
       <<"ntrianglerighteq;", "⋭">>, <<"nu;", "ν">>, <<"num;", "#">>, <<"nvDash;", "⊭">>,
       <<"nvdash;", "⊬">>, <<"nvgt;", ">⃒">>, <<"nvinfin;", "⧞">>, <<"nvlt;", "<⃒">>,
       <<"nvltrie;", "⊴⃒">>, <<"nvrtrie;", "⊵⃒">>, <<"nwArr;", "⇖">>, <<"nwarr;", "↖">>,
       <<"nwarrow;", "↖">>, <<"oacute", "ó">>, <<"oacute;", "ó">>, <<"oast;", "⊛">>,
       <<"ocir;", "⊚">>, <<"ocirc", "ô">>, <<"ocirc;", "ô">>, <<"odash;", "⊝">>,
       <<"odot;", "⊙">>, <<"odsold;", "⦼">>, <<"ofcir;", "⦿">>, <<"ogon;", "˛">>,
       <<"ograve", "ò">>, <<"ograve;", "ò">>, <<"ogt;", "⧁">>, <<"ohbar;", "⦵">>,
       <<"ohm;", "Ω">>, <<"olarr;", "↺">>, <<"olcir;", "⦾">>, <<"olcross;", "⦻">>,
       <<"olt;", "⧀">>, <<"omega;", "ω">>, <<"omicron;", "ο">>, <<"omid;", "⦶">>,
       <<"ominus;", "⊖">>, <<"opar;", "⦷">>, <<"operp;", "⦹">>, <<"oplus;", "⊕">>,
       <<"orarr;", "↻">>, <<"ordf", "ª">>, <<"ordf;", "ª">>, <<"ordm", "º">>, <<"ordm;", "º">>,
       <<"origof;", "⊶">>, <<"oslash", "ø">>, <<"oslash;", "ø">>, <<"osol;", "⊘">>,
       <<"otilde", "õ">>, <<"otilde;", "õ">>, <<"otimes;", "⊗">>, <<"ouml", "ö">>,
       <<"ouml;", "ö">>, <<"para", "¶">>, <<"para;", "¶">>, <<"parsim;", "⫳">>,
       <<"parsl;", "⫽">>, <<"percnt;", "%">>, <<"period;", ".">>, <<"perp;", "⊥">>,
       <<"phi;", "φ">>, <<"phiv;", "ϕ">>, <<"pi;", "π">>, <<"pitchfork;", "⋔">>, <<"piv;", "ϖ">>,
       <<"plus;", "+">>, <<"plusb;", "⊞">>, <<"plusmn", "±">>, <<"plusmn;", "±">>,
       <<"pm;", "±">>, <<"pound", "£">>, <<"pound;", "£">>, <<"prE;", "⪳">>, <<"prap;", "⪷">>,
       <<"pre;", "⪯">>, <<"precapprox;", "⪷">>, <<"preceq;", "⪯">>, <<"precnapprox;", "⪹">>,
       <<"precneqq;", "⪵">>, <<"precnsim;", "⋨">>, <<"prnE;", "⪵">>, <<"prnap;", "⪹">>,
       <<"prnsim;", "⋨">>, <<"prurel;", "⊰">>, <<"psi;", "ψ">>, <<"quest;", "?">>,
       <<"quot", "\"">>, <<"quot;", "\"">>, <<"rAarr;", "⇛">>, <<"rArr;", "⇒">>,
       <<"raemptyv;", "⦳">>, <<"rang;", "⟩">>, <<"rangd;", "⦒">>, <<"range;", "⦥">>,
       <<"rangle;", "⟩">>, <<"raquo", "»">>, <<"raquo;", "»">>, <<"rarr;", "→">>,
       <<"rarrb;", "⇥">>, <<"rarrhk;", "↪">>, <<"rarrlp;", "↬">>, <<"rarrtl;", "↣">>,
       <<"rarrw;", "↝">>, <<"rbrace;", "}">>, <<"rbrack;", "]">>, <<"rbrke;", "⦌">>,
       <<"rbrksld;", "⦎">>, <<"rbrkslu;", "⦐">>, <<"rcub;", "}">>, <<"rdsh;", "↳">>,
       <<"rect;", "▭">>, <<"reg", "®">>, <<"reg;", "®">>, <<"rhard;", "⇁">>, <<"rharu;", "⇀">>,
       <<"rho;", "ρ">>, <<"rhov;", "ϱ">>, <<"rightarrow;", "→">>, <<"rightarrowtail;", "↣">>,
       <<"rightharpoondown;", "⇁">>, <<"rightharpoonup;", "⇀">>, <<"rightleftarrows;", "⇄">>,
       <<"rightleftharpoons;", "⇌">>, <<"rightrightarrows;", "⇉">>, <<"rightsquigarrow;", "↝">>,
       <<"rightthreetimes;", "⋌">>, <<"ring;", "˚">>, <<"rlarr;", "⇄">>, <<"rlhar;", "⇌">>,
       <<"rmoust;", "⎱">>, <<"rmoustache;", "⎱">>, <<"rnmid;", "⫮">>, <<"roang;", "⟭">>,
       <<"roarr;", "⇾">>, <<"robrk;", "⟧">>, <<"ropar;", "⦆">>, <<"rpar;", ")">>,
       <<"rpargt;", "⦔">>, <<"rrarr;", "⇉">>, <<"rsh;", "↱">>, <<"rsqb;", "]">>,
       <<"rthree;", "⋌">>, <<"rtimes;", "⋊">>, <<"rtri;", "▹">>, <<"rtrie;", "⊵">>,
       <<"rtrif;", "▸">>, <<"rtriltri;", "⧎">>, <<"scE;", "⪴">>, <<"scap;", "⪸">>,
       <<"sce;", "⪰">>, <<"scnE;", "⪶">>, <<"scnap;", "⪺">>, <<"scnsim;", "⋩">>,
       <<"sdot;", "⋅">>, <<"sdotb;", "⊡">>, <<"seArr;", "⇘">>, <<"searr;", "↘">>,
       <<"searrow;", "↘">>, <<"sect", "§">>, <<"sect;", "§">>, <<"semi;", ";">>, <<"shy", "­">>,
       <<"shy;", "­">>, <<"sigma;", "σ">>, <<"sigmaf;", "ς">>, <<"sigmav;", "ς">>,
       <<"simg;", "⪞">>, <<"simgE;", "⪠">>, <<"siml;", "⪝">>, <<"simlE;", "⪟">>,
       <<"slarr;", "←">>, <<"smeparsl;", "⧤">>, <<"smt;", "⪪">>, <<"smte;", "⪬">>,
       <<"sol;", "/">>, <<"solb;", "⧄">>, <<"sqcap;", "⊓">>, <<"sqcup;", "⊔">>,
       <<"sqsub;", "⊏">>, <<"sqsube;", "⊑">>, <<"sqsubset;", "⊏">>, <<"sqsubseteq;", "⊑">>,
       <<"sqsup;", "⊐">>, <<"sqsupe;", "⊒">>, <<"sqsupset;", "⊐">>, <<"sqsupseteq;", "⊒">>,
       <<"squ;", "□">>, <<"square;", "□">>, <<"squarf;", "▪">>, <<"squf;", "▪">>,
       <<"srarr;", "→">>, <<"sstarf;", "⋆">>, <<"straightepsilon;", "ϵ">>,
       <<"straightphi;", "ϕ">>, <<"strns;", "¯">>, <<"sub;", "⊂">>, <<"subE;", "⫅">>,
       <<"subdot;", "⪽">>, <<"sube;", "⊆">>, <<"subedot;", "⫃">>, <<"submult;", "⫁">>,
       <<"subnE;", "⫋">>, <<"subne;", "⊊">>, <<"subplus;", "⪿">>, <<"subset;", "⊂">>,
       <<"subseteq;", "⊆">>, <<"subseteqq;", "⫅">>, <<"subsetneq;", "⊊">>,
       <<"subsetneqq;", "⫋">>, <<"subsim;", "⫇">>, <<"subsub;", "⫕">>, <<"subsup;", "⫓">>,
       <<"succapprox;", "⪸">>, <<"succeq;", "⪰">>, <<"succnapprox;", "⪺">>, <<"succneqq;", "⪶">>,
       <<"succnsim;", "⋩">>, <<"sup1", "¹">>, <<"sup1;", "¹">>, <<"sup2", "²">>,
       <<"sup2;", "²">>, <<"sup3", "³">>, <<"sup3;", "³">>, <<"sup;", "⊃">>, <<"supE;", "⫆">>,
       <<"supdot;", "⪾">>, <<"supdsub;", "⫘">>, <<"supe;", "⊇">>, <<"supedot;", "⫄">>,
       <<"suphsol;", "⟉">>, <<"suphsub;", "⫗">>, <<"supmult;", "⫂">>, <<"supnE;", "⫌">>,
       <<"supne;", "⊋">>, <<"supplus;", "⫀">>, <<"supset;", "⊃">>, <<"supseteq;", "⊇">>,
       <<"supseteqq;", "⫆">>, <<"supsetneq;", "⊋">>, <<"supsetneqq;", "⫌">>, <<"supsim;", "⫈">>,
       <<"supsub;", "⫔">>, <<"supsup;", "⫖">>, <<"swArr;", "⇙">>, <<"swarr;", "↙">>,
       <<"swarrow;", "↙">>, <<"szlig", "ß">>, <<"szlig;", "ß">>, <<"tau;", "τ">>,
       <<"tbrk;", "⎴">>, <<"tdot;", "⃛">>, <<"theta;", "θ">>, <<"thetasym;", "ϑ">>,
       <<"thetav;", "ϑ">>, <<"thorn", "þ">>, <<"thorn;", "þ">>, <<"tilde;", "˜">>,
       <<"times", "×">>, <<"times;", "×">>, <<"timesb;", "⊠">>, <<"top;", "⊤">>,
       <<"topcir;", "⫱">>, <<"topfork;", "⫚">>, <<"triangle;", "▵">>, <<"triangledown;", "▿">>,
       <<"triangleleft;", "◃">>, <<"trianglelefteq;", "⊴">>, <<"triangleright;", "▹">>,
       <<"trianglerighteq;", "⊵">>, <<"tridot;", "◬">>, <<"trisb;", "⧍">>, <<"trpezium;", "⏢">>,
       <<"twoheadleftarrow;", "↞">>, <<"twoheadrightarrow;", "↠">>, <<"uArr;", "⇑">>,
       <<"uacute", "ú">>, <<"uacute;", "ú">>, <<"uarr;", "↑">>, <<"ucirc", "û">>,
       <<"ucirc;", "û">>, <<"udarr;", "⇅">>, <<"ugrave", "ù">>, <<"ugrave;", "ù">>,
       <<"uharl;", "↿">>, <<"uharr;", "↾">>, <<"uhblk;", "▀">>, <<"ultri;", "◸">>,
       <<"uml", "¨">>, <<"uml;", "¨">>, <<"uparrow;", "↑">>, <<"updownarrow;", "↕">>,
       <<"upharpoonleft;", "↿">>, <<"upharpoonright;", "↾">>, <<"uplus;", "⊎">>,
       <<"upsi;", "υ">>, <<"upsih;", "ϒ">>, <<"upsilon;", "υ">>, <<"upuparrows;", "⇈">>,
       <<"urtri;", "◹">>, <<"utdot;", "⋰">>, <<"utri;", "▵">>, <<"utrif;", "▴">>,
       <<"uuarr;", "⇈">>, <<"uuml", "ü">>, <<"uuml;", "ü">>, <<"uwangle;", "⦧">>,
       <<"vArr;", "⇕">>, <<"vBar;", "⫨">>, <<"vBarv;", "⫩">>, <<"vDash;", "⊨">>,
       <<"vangrt;", "⦜">>, <<"varepsilon;", "ϵ">>, <<"varkappa;", "ϰ">>, <<"varphi;", "ϕ">>,
       <<"varpi;", "ϖ">>, <<"varr;", "↕">>, <<"varrho;", "ϱ">>, <<"varsigma;", "ς">>,
       <<"vartheta;", "ϑ">>, <<"vartriangleleft;", "⊲">>, <<"vartriangleright;", "⊳">>,
       <<"vdash;", "⊢">>, <<"veebar;", "⊻">>, <<"vellip;", "⋮">>, <<"verbar;", "|">>,
       <<"vert;", "|">>, <<"vltri;", "⊲">>, <<"vnsub;", "⊂⃒">>, <<"vnsup;", "⊃⃒">>,
       <<"vrtri;", "⊳">>, <<"vzigzag;", "⦚">>, <<"xcap;", "⋂">>, <<"xcirc;", "◯">>,
       <<"xcup;", "⋃">>, <<"xdtri;", "▽">>, <<"xhArr;", "⟺">>, <<"xharr;", "⟷">>, <<"xi;", "ξ">>,
       <<"xlArr;", "⟸">>, <<"xlarr;", "⟵">>, <<"xmap;", "⟼">>, <<"xnis;", "⋻">>,
       <<"xrArr;", "⟹">>, <<"xrarr;", "⟶">>, <<"xutri;", "△">>, <<"xvee;", "⋁">>,
       <<"xwedge;", "⋀">>, <<"yacute", "ý">>, <<"yacute;", "ý">>, <<"yen", "¥">>,
       <<"yen;", "¥">>, <<"yuml", "ÿ">>, <<"yuml;", "ÿ">>, <<"zeta;", "ζ">>, <<"zigrarr;", "⇝">> >>

\* html.entities.html5: the names whose value holds a character the model
\* cannot write.  The model has no value for a reference to one of them.
Html5Unwritable ==
    { "Abreve;", "Acy;", "Afr;", "Amacr;", "And;", "Aogon;", "Aopf;", "ApplyFunction;", "Ascr;",
       "Assign;", "Backslash;", "Barwed;", "Bcy;", "Because;", "Bernoullis;", "Bfr;", "Bopf;",
       "Bscr;", "Bumpeq;", "CHcy;", "Cacute;", "CapitalDifferentialD;", "Cayleys;", "Ccaron;",
       "Ccirc;", "Cconint;", "Cdot;", "Cfr;", "ClockwiseContourIntegral;",
       "CloseCurlyDoubleQuote;", "CloseCurlyQuote;", "Colon;", "Colone;", "Congruent;",
       "Conint;", "ContourIntegral;", "Copf;", "Coproduct;", "CounterClockwiseContourIntegral;",
       "Cross;", "Cscr;", "CupCap;", "DD;", "DDotrahd;", "DJcy;", "DScy;", "DZcy;", "Dagger;",
       "Dcaron;", "Dcy;", "Del;", "Dfr;", "DiacriticalGrave;", "DifferentialD;", "Dopf;",
       "DotEqual;", "DoubleContourIntegral;", "DoubleVerticalBar;", "DownArrowBar;",
       "DownBreve;", "DownLeftRightVector;", "DownLeftTeeVector;", "DownLeftVectorBar;",
       "DownRightTeeVector;", "DownRightVectorBar;", "Dscr;", "Dstrok;", "ENG;", "Ecaron;",
       "Ecy;", "Edot;", "Efr;", "Element;", "Emacr;", "Eogon;", "Eopf;", "Equal;", "EqualTilde;",
       "Escr;", "Esim;", "Exists;", "ExponentialE;", "Fcy;", "Ffr;", "Fopf;", "ForAll;",
       "Fouriertrf;", "Fscr;", "GJcy;", "Gbreve;", "Gcedil;", "Gcirc;", "Gcy;", "Gdot;", "Gfr;",
       "Gopf;", "GreaterEqual;", "GreaterFullEqual;", "GreaterLess;", "GreaterSlantEqual;",
       "GreaterTilde;", "Gscr;", "Gt;", "HARDcy;", "Hcirc;", "Hfr;", "HilbertSpace;", "Hopf;",
       "HorizontalLine;", "Hscr;", "Hstrok;", "HumpDownHump;", "HumpEqual;", "IEcy;", "IJlig;",
       "IOcy;", "Icy;", "Idot;", "Ifr;", "Im;", "Imacr;", "ImaginaryI;", "Int;", "Integral;",
       "InvisibleComma;", "InvisibleTimes;", "Iogon;", "Iopf;", "Iscr;", "Itilde;", "Iukcy;",
       "Jcirc;", "Jcy;", "Jfr;", "Jopf;", "Jscr;", "Jsercy;", "Jukcy;", "KHcy;", "KJcy;",
       "Kcedil;", "Kcy;", "Kfr;", "Kopf;", "Kscr;", "LJcy;", "Lacute;", "Laplacetrf;", "Lcaron;",
       "Lcedil;", "Lcy;", "LeftCeiling;", "LeftDownTeeVector;", "LeftDownVectorBar;",
       "LeftFloor;", "LeftRightVector;", "LeftTeeVector;", "LeftUpDownVector;",
       "LeftUpTeeVector;", "LeftUpVectorBar;", "LeftVectorBar;", "LessFullEqual;",
       "LessGreater;", "LessSlantEqual;", "LessTilde;", "Lfr;", "Lmidot;", "Lopf;", "Lscr;",
       "Lstrok;", "Lt;", "Map;", "Mcy;", "MediumSpace;", "Mellintrf;", "Mfr;", "MinusPlus;",
       "Mopf;", "Mscr;", "NJcy;", "Nacute;", "Ncaron;", "Ncedil;", "Ncy;",
       "NegativeMediumSpace;", "NegativeThickSpace;", "NegativeThinSpace;",
       "NegativeVeryThinSpace;", "NestedGreaterGreater;", "NestedLessLess;", "Nfr;", "NoBreak;",
       "Nopf;", "NotCongruent;", "NotCupCap;", "NotDoubleVerticalBar;", "NotElement;",
       "NotEqual;", "NotEqualTilde;", "NotExists;", "NotGreater;", "NotGreaterEqual;",
       "NotGreaterFullEqual;", "NotGreaterGreater;", "NotGreaterLess;", "NotGreaterSlantEqual;",
       "NotGreaterTilde;", "NotHumpDownHump;", "NotHumpEqual;", "NotLeftTriangleBar;",
       "NotLess;", "NotLessEqual;", "NotLessGreater;", "NotLessLess;", "NotLessSlantEqual;",
       "NotLessTilde;", "NotNestedGreaterGreater;", "NotNestedLessLess;", "NotPrecedesEqual;",
       "NotReverseElement;", "NotRightTriangleBar;", "NotSquareSubset;", "NotSquareSuperset;",
       "NotSucceedsEqual;", "NotSucceedsTilde;", "NotTilde;", "NotTildeEqual;",
       "NotTildeFullEqual;", "NotTildeTilde;", "NotVerticalBar;", "Nscr;", "OElig;", "Ocy;",
       "Odblac;", "Ofr;", "Omacr;", "Oopf;", "OpenCurlyDoubleQuote;", "OpenCurlyQuote;", "Or;",
       "Oscr;", "Otimes;", "OverBar;", "PartialD;", "Pcy;", "Pfr;", "Poincareplane;", "Popf;",
       "Precedes;", "PrecedesSlantEqual;", "PrecedesTilde;", "Prime;", "Product;", "Proportion;",
       "Proportional;", "Pscr;", "Qfr;", "Qopf;", "Qscr;", "RBarr;", "Racute;", "Rarrtl;",
       "Rcaron;", "Rcedil;", "Rcy;", "Re;", "ReverseElement;", "ReverseUpEquilibrium;", "Rfr;",
       "RightCeiling;", "RightDownTeeVector;", "RightDownVectorBar;", "RightFloor;",
       "RightTeeVector;", "RightUpDownVector;", "RightUpTeeVector;", "RightUpVectorBar;",
       "RightVectorBar;", "Ropf;", "RoundImplies;", "Rscr;", "SHCHcy;", "SHcy;", "SOFTcy;",
       "Sacute;", "Scaron;", "Scedil;", "Scirc;", "Scy;", "Sfr;", "SmallCircle;", "Sopf;",
       "Sqrt;", "Sscr;", "Succeeds;", "SucceedsSlantEqual;", "SucceedsTilde;", "SuchThat;",
       "Sum;", "TRADE;", "TSHcy;", "TScy;", "Tcaron;", "Tcedil;", "Tcy;", "Tfr;", "Therefore;",
       "ThickSpace;", "ThinSpace;", "Tilde;", "TildeEqual;", "TildeFullEqual;", "TildeTilde;",
       "Topf;", "Tscr;", "Tstrok;", "Uarrocir;", "Ubrcy;", "Ubreve;", "Ucy;", "Udblac;", "Ufr;",
       "Umacr;", "Uogon;", "Uopf;", "UpArrowBar;", "UpEquilibrium;", "Uring;", "Uscr;",
       "Utilde;", "Vcy;", "Verbar;", "Vert;", "VerticalBar;", "VerticalSeparator;",
       "VerticalTilde;", "VeryThinSpace;", "Vfr;", "Vopf;", "Vscr;", "Wcirc;", "Wfr;", "Wopf;",
       "Wscr;", "Xfr;", "Xopf;", "Xscr;", "YAcy;", "YIcy;", "YUcy;", "Ycirc;", "Ycy;", "Yfr;",
       "Yopf;", "Yscr;", "Yuml;", "ZHcy;", "Zacute;", "Zcaron;", "Zcy;", "Zdot;",
       "ZeroWidthSpace;", "Zfr;", "Zopf;", "Zscr;", "abreve;", "ac;", "acE;", "acd;", "acy;",
       "af;", "afr;", "alefsym;", "aleph;", "amacr;", "amalg;", "and;", "andand;", "andd;",
       "andslope;", "andv;", "ang;", "angle;", "angmsd;", "angrt;", "angsph;", "angzarr;",
       "aogon;", "aopf;", "ap;", "apE;", "apacir;", "ape;", "apid;", "approx;", "approxeq;",
       "ascr;", "asymp;", "asympeq;", "awconint;", "awint;", "backcong;", "backprime;",
       "backsim;", "barwed;", "barwedge;", "bcong;", "bcy;", "bdquo;", "becaus;", "because;",
       "bernou;", "beth;", "between;", "bfr;", "bigodot;", "bigoplus;", "bigotimes;",
       "bigsqcup;", "bigstar;", "biguplus;", "bkarow;", "blank;", "bnequiv;", "bnot;", "bopf;",
       "boxDL;", "boxDR;", "boxDl;", "boxDr;", "boxH;", "boxHD;", "boxHU;", "boxHd;", "boxHu;",
       "boxUL;", "boxUR;", "boxUl;", "boxUr;", "boxV;", "boxVH;", "boxVL;", "boxVR;", "boxVh;",
       "boxVl;", "boxVr;", "boxdL;", "boxdR;", "boxdl;", "boxdr;", "boxh;", "boxhD;", "boxhU;",
       "boxhd;", "boxhu;", "boxuL;", "boxuR;", "boxul;", "boxur;", "boxv;", "boxvH;", "boxvL;",
       "boxvR;", "boxvh;", "boxvl;", "boxvr;", "bprime;", "bscr;", "bsemi;", "bsim;", "bull;",
       "bullet;", "bump;", "bumpe;", "bumpeq;", "cacute;", "cap;", "capand;", "capbrcup;",
       "capcap;", "capcup;", "capdot;", "caps;", "caret;", "ccaps;", "ccaron;", "ccirc;",
       "ccups;", "ccupssm;", "cdot;", "cfr;", "chcy;", "check;", "checkmark;", "circeq;",
       "circledS;", "cire;", "cirfnint;", "clubs;", "clubsuit;", "colone;", "coloneq;", "comp;",
       "compfn;", "complement;", "complexes;", "cong;", "congdot;", "conint;", "copf;",
       "coprod;", "copysr;", "cross;", "cscr;", "cudarrl;", "cudarrr;", "cularrp;", "cup;",
       "cupbrcap;", "cupcap;", "cupcup;", "cupor;", "cups;", "curarrm;", "cwconint;", "cwint;",
       "cylcty;", "dHar;", "dagger;", "daleth;", "dash;", "dbkarow;", "dcaron;", "dcy;", "dd;",
       "ddagger;", "ddotseq;", "dfisht;", "dfr;", "diamondsuit;", "diams;", "djcy;", "dlcorn;",
       "dlcrop;", "dopf;", "doteq;", "doteqdot;", "dotminus;", "dotplus;", "doublebarwedge;",
       "drbkarow;", "drcorn;", "drcrop;", "dscr;", "dscy;", "dstrok;", "duhar;", "dzcy;",
       "eDDot;", "eDot;", "easter;", "ecaron;", "ecir;", "ecolon;", "ecy;", "edot;", "ee;",
       "efDot;", "efr;", "ell;", "emacr;", "empty;", "emptyset;", "emptyv;", "emsp13;",
       "emsp14;", "emsp;", "eng;", "ensp;", "eogon;", "eopf;", "eplus;", "eqcirc;", "eqcolon;",
       "eqsim;", "equest;", "equiv;", "equivDD;", "erDot;", "erarr;", "escr;", "esdot;", "esim;",
       "exist;", "expectation;", "exponentiale;", "fallingdotseq;", "fcy;", "female;", "ffilig;",
       "fflig;", "ffllig;", "ffr;", "filig;", "flat;", "fllig;", "fopf;", "forall;", "fpartint;",
       "frac13;", "frac15;", "frac16;", "frac18;", "frac23;", "frac25;", "frac35;", "frac38;",
       "frac45;", "frac56;", "frac58;", "frac78;", "frasl;", "frown;", "fscr;", "gE;", "gbreve;",
       "gcirc;", "gcy;", "gdot;", "ge;", "geq;", "geqq;", "geqslant;", "ges;", "gesl;", "gfr;",
       "gg;", "gimel;", "gjcy;", "gl;", "gnE;", "gneqq;", "gopf;", "grave;", "gscr;", "gsim;",
       "gtcir;", "gtquest;", "gtrarr;", "gtrless;", "gtrsim;", "gvertneqq;", "gvnE;", "hairsp;",
       "hamilt;", "hardcy;", "harrcir;", "hbar;", "hcirc;", "hearts;", "heartsuit;", "hellip;",
       "hfr;", "hksearow;", "hkswarow;", "homtht;", "hopf;", "horbar;", "hscr;", "hslash;",
       "hstrok;", "hybull;", "hyphen;", "ic;", "icy;", "iecy;", "ifr;", "ii;", "iiiint;",
       "iiint;", "iiota;", "ijlig;", "imacr;", "image;", "imagline;", "imagpart;", "imath;",
       "imped;", "in;", "incare;", "infin;", "inodot;", "int;", "integers;", "intlarhk;",
       "intprod;", "iocy;", "iogon;", "iopf;", "iprod;", "iscr;", "isin;", "isinv;", "it;",
       "itilde;", "iukcy;", "jcirc;", "jcy;", "jfr;", "jmath;", "jopf;", "jscr;", "jsercy;",
       "jukcy;", "kcedil;", "kcy;", "kfr;", "kgreen;", "khcy;", "kjcy;", "kopf;", "kscr;",
       "lAtail;", "lBarr;", "lE;", "lHar;", "lacute;", "lagran;", "larrbfs;", "larrfs;",
       "larrpl;", "larrsim;", "latail;", "lates;", "lbarr;", "lbbrk;", "lcaron;", "lcedil;",
       "lceil;", "lcy;", "ldca;", "ldquo;", "ldquor;", "ldrdhar;", "ldrushar;", "le;", "leq;",
       "leqq;", "leqslant;", "les;", "lesdot;", "lesg;", "lessgtr;", "lesssim;", "lfisht;",
       "lfloor;", "lfr;", "lg;", "lharul;", "ljcy;", "ll;", "llcorner;", "llhard;", "lmidot;",
       "lnE;", "lneqq;", "lopf;", "loplus;", "lotimes;", "lowast;", "lrcorner;", "lrhard;",
       "lrm;", "lsaquo;", "lscr;", "lsim;", "lsquo;", "lsquor;", "lstrok;", "ltcir;", "ltlarr;",
       "ltquest;", "lurdshar;", "luruhar;", "lvertneqq;", "lvnE;", "mDDot;", "male;", "malt;",
       "maltese;", "mcomma;", "mcy;", "mdash;", "measuredangle;", "mfr;", "mho;", "mid;",
       "minus;", "minusd;", "minusdu;", "mldr;", "mnplus;", "mopf;", "mp;", "mscr;", "mstpos;",
       "nGg;", "nGt;", "nGtv;", "nLl;", "nLt;", "nLtv;", "nabla;", "nacute;", "nang;", "nap;",
       "napE;", "napid;", "napos;", "napprox;", "natur;", "natural;", "naturals;", "nbump;",
       "nbumpe;", "ncap;", "ncaron;", "ncedil;", "ncong;", "ncongdot;", "ncup;", "ncy;",
       "ndash;", "ne;", "nearhk;", "nedot;", "nequiv;", "nesear;", "nesim;", "nexist;",
       "nexists;", "nfr;", "ngE;", "nge;", "ngeq;", "ngeqq;", "ngeqslant;", "nges;", "ngsim;",
       "ngt;", "ngtr;", "ni;", "niv;", "njcy;", "nlE;", "nldr;", "nle;", "nleq;", "nleqq;",
       "nleqslant;", "nles;", "nless;", "nlsim;", "nlt;", "nmid;", "nopf;", "notin;", "notinE;",
       "notindot;", "notinva;", "notni;", "notniva;", "npar;", "nparallel;", "npart;",
       "npolint;", "npre;", "npreceq;", "nrarrc;", "nrarrw;", "nsce;", "nscr;", "nshortmid;",
       "nshortparallel;", "nsim;", "nsime;", "nsimeq;", "nsmid;", "nspar;", "nsubE;",
       "nsubseteqq;", "nsucceq;", "nsupE;", "nsupseteqq;", "ntgl;", "ntlg;", "numero;", "numsp;",
       "nvHarr;", "nvap;", "nvge;", "nvlArr;", "nvle;", "nvrArr;", "nvsim;", "nwarhk;",
       "nwnear;", "oS;", "ocy;", "odblac;", "odiv;", "oelig;", "ofr;", "oint;", "oline;",
       "omacr;", "oopf;", "or;", "ord;", "order;", "orderof;", "oror;", "orslope;", "orv;",
       "oscr;", "otimesas;", "ovbar;", "par;", "parallel;", "part;", "pcy;", "permil;",
       "pertenk;", "pfr;", "phmmat;", "phone;", "planck;", "planckh;", "plankv;", "plusacir;",
       "pluscir;", "plusdo;", "plusdu;", "pluse;", "plussim;", "plustwo;", "pointint;", "popf;",
       "pr;", "prcue;", "prec;", "preccurlyeq;", "precsim;", "prime;", "primes;", "prod;",
       "profalar;", "profline;", "profsurf;", "prop;", "propto;", "prsim;", "pscr;", "puncsp;",
       "qfr;", "qint;", "qopf;", "qprime;", "qscr;", "quaternions;", "quatint;", "questeq;",
       "rAtail;", "rBarr;", "rHar;", "race;", "racute;", "radic;", "rarrap;", "rarrbfs;",
       "rarrc;", "rarrfs;", "rarrpl;", "rarrsim;", "ratail;", "ratio;", "rationals;", "rbarr;",
       "rbbrk;", "rcaron;", "rcedil;", "rceil;", "rcy;", "rdca;", "rdldhar;", "rdquo;",
       "rdquor;", "real;", "realine;", "realpart;", "reals;", "rfisht;", "rfloor;", "rfr;",
       "rharul;", "risingdotseq;", "rlm;", "ropf;", "roplus;", "rotimes;", "rppolint;",
       "rsaquo;", "rscr;", "rsquo;", "rsquor;", "ruluhar;", "rx;", "sacute;", "sbquo;", "sc;",
       "scaron;", "sccue;", "scedil;", "scirc;", "scpolint;", "scsim;", "scy;", "sdote;",
       "searhk;", "seswar;", "setminus;", "setmn;", "sext;", "sfr;", "sfrown;", "sharp;",
       "shchcy;", "shcy;", "shortmid;", "shortparallel;", "sim;", "simdot;", "sime;", "simeq;",
       "simne;", "simplus;", "simrarr;", "smallsetminus;", "smashp;", "smid;", "smile;",
       "smtes;", "softcy;", "solbar;", "sopf;", "spades;", "spadesuit;", "spar;", "sqcaps;",
       "sqcups;", "sscr;", "ssetmn;", "ssmile;", "star;", "starf;", "subrarr;", "succ;",
       "succcurlyeq;", "succsim;", "sum;", "sung;", "suplarr;", "swarhk;", "swnwar;", "target;",
       "tcaron;", "tcedil;", "tcy;", "telrec;", "tfr;", "there4;", "therefore;", "thickapprox;",
       "thicksim;", "thinsp;", "thkap;", "thksim;", "timesbar;", "timesd;", "tint;", "toea;",
       "topbot;", "topf;", "tosa;", "tprime;", "trade;", "triangleq;", "trie;", "triminus;",
       "triplus;", "tritime;", "tscr;", "tscy;", "tshcy;", "tstrok;", "twixt;", "uHar;",
       "ubrcy;", "ubreve;", "ucy;", "udblac;", "udhar;", "ufisht;", "ufr;", "ulcorn;",
       "ulcorner;", "ulcrop;", "umacr;", "uogon;", "uopf;", "urcorn;", "urcorner;", "urcrop;",
       "uring;", "uscr;", "utilde;", "varnothing;", "varpropto;", "varsubsetneq;",
       "varsubsetneqq;", "varsupsetneq;", "varsupsetneqq;", "vcy;", "vee;", "veeeq;", "vfr;",
       "vopf;", "vprop;", "vscr;", "vsubnE;", "vsubne;", "vsupnE;", "vsupne;", "wcirc;",
       "wedbar;", "wedge;", "wedgeq;", "weierp;", "wfr;", "wopf;", "wp;", "wr;", "wreath;",
       "wscr;", "xfr;", "xodot;", "xopf;", "xoplus;", "xotime;", "xscr;", "xsqcup;", "xuplus;",
       "yacy;", "ycirc;", "ycy;", "yfr;", "yicy;", "yopf;", "yscr;", "yucy;", "zacute;",
       "zcaron;", "zcy;", "zdot;", "zeetrf;", "zfr;", "zhcy;", "zopf;", "zscr;", "zwj;", "zwnj;" }

\* html._invalid_charrefs: the code points 0, 13 and 128 to 159 with the character
\* each stands for, where the model can write it.
InvalidCharrefs ==
    << <<0, "�">>, <<13, "\r">>, <<128, "€">>, <<129, "">>, <<131, "ƒ">>, <<136, "ˆ">>,
       <<141, "">>, <<143, "">>, <<144, "">>, <<152, "˜">>, <<157, "">> >>

\* The characters above U+00FF that the model can write, and in OtherCodes, at
\* the same place, the code point of each.
OtherChars ==
       "ƒǵˆˇ˘˙˚˛˜˝ΑΒΓΔΕΖΗΘΙΚΛΜΝΞΟΠΡΣΤΥΦΧΨΩαβγδεζηθικλμνξ"
    \o "οπρςστυφχψωϑϒϕϖϜϝϰϱϵ϶€⃒⃥⃛⃜←↑→↓↔↕↖↗↘↙↚↛↝↞↟↠↡↢↣↤↥↦"
    \o "↧↩↪↫↬↭↮↰↱↲↳↵↶↷↺↻↼↽↾↿⇀⇁⇂⇃⇄⇅⇆⇇⇈⇉⇊⇋⇌⇍⇎⇏⇐⇑⇒⇓⇔⇕⇖⇗⇘⇙⇚⇛"
    \o "⇝⇤⇥⇵⇽⇾⇿⊀⊁⊂⊃⊄⊅⊆⊇⊈⊉⊊⊋⊍⊎⊏⊐⊑⊒⊓⊔⊕⊖⊗⊘⊙⊚⊛⊝⊞⊟⊠⊡⊢⊣⊤⊥⊧⊨⊩⊪⊫"
    \o "⊬⊭⊮⊯⊰⊲⊳⊴⊵⊶⊷⊸⊹⊺⊻⊽⊾⊿⋀⋁⋂⋃⋄⋅⋆⋇⋈⋉⋊⋋⋌⋍⋎⋏⋐⋑⋒⋓⋔⋕⋖⋗⋘⋙⋚⋛⋞⋟"
    \o "⋠⋡⋢⋣⋦⋧⋨⋩⋪⋫⋬⋭⋮⋯⋰⋱⋲⋳⋴⋵⋶⋷⋹⋺⋻⋼⋽⋾⎰⎱⎴⎵⎶⏜⏝⏞⏟⏢⏧▀▄█░▒▓□▪▫"
    \o "▭▮▱△▴▵▸▹▽▾▿◂◃◊○◬◯◸◹◺◻◼⟈⟉⟦⟧⟨⟩⟪⟫⟬⟭⟵⟶⟷⟸⟹⟺⟼⟿⦅⦆⦋⦌⦍⦎⦏⦐"
    \o "⦑⦒⦓⦔⦕⦖⦚⦜⦝⦤⦥⦦⦧⦨⦩⦪⦫⦬⦭⦮⦯⦰⦱⦲⦳⦴⦵⦶⦷⦹⦻⦼⦾⦿⧀⧁⧂⧃⧄⧅⧉⧍⧎⧏⧐⧜⧝⧞"
    \o "⧣⧤⧥⧫⧴⧶⪀⪁⪂⪃⪄⪅⪆⪇⪈⪉⪊⪋⪌⪍⪎⪏⪐⪑⪒⪓⪔⪕⪖⪗⪘⪙⪚⪝⪞⪟⪠⪡⪢⪤⪥⪦⪧⪨⪩⪪⪫⪬"
    \o "⪭⪮⪯⪰⪳⪴⪵⪶⪷⪸⪹⪺⪻⪼⪽⪾⪿⫀⫁⫂⫃⫄⫅⫆⫇⫈⫋⫌⫏⫐⫑⫒⫓⫔⫕⫖⫗⫘⫙⫚⫛⫤⫦⫧⫨⫩⫫⫬"
    \o "⫭⫮⫯⫰⫱⫲⫳⫽�"

OtherCodes ==
    << 402, 501, 710, 711, 728, 729, 730, 731, 732, 733, 913, 914, 915, 916, 917, 918, 919, 920,
       921, 922, 923, 924, 925, 926, 927, 928, 929, 931, 932, 933, 934, 935, 936, 937, 945, 946,
       947, 948, 949, 950, 951, 952, 953, 954, 955, 956, 957, 958, 959, 960, 961, 962, 963, 964,
       965, 966, 967, 968, 969, 977, 978, 981, 982, 988, 989, 1008, 1009, 1013, 1014, 8364, 8402,
       8411, 8412, 8421, 8592, 8593, 8594, 8595, 8596, 8597, 8598, 8599, 8600, 8601, 8602, 8603,
       8605, 8606, 8607, 8608, 8609, 8610, 8611, 8612, 8613, 8614, 8615, 8617, 8618, 8619, 8620,
       8621, 8622, 8624, 8625, 8626, 8627, 8629, 8630, 8631, 8634, 8635, 8636, 8637, 8638, 8639,
       8640, 8641, 8642, 8643, 8644, 8645, 8646, 8647, 8648, 8649, 8650, 8651, 8652, 8653, 8654,
       8655, 8656, 8657, 8658, 8659, 8660, 8661, 8662, 8663, 8664, 8665, 8666, 8667, 8669, 8676,
       8677, 8693, 8701, 8702, 8703, 8832, 8833, 8834, 8835, 8836, 8837, 8838, 8839, 8840, 8841,
       8842, 8843, 8845, 8846, 8847, 8848, 8849, 8850, 8851, 8852, 8853, 8854, 8855, 8856, 8857,
       8858, 8859, 8861, 8862, 8863, 8864, 8865, 8866, 8867, 8868, 8869, 8871, 8872, 8873, 8874,
       8875, 8876, 8877, 8878, 8879, 8880, 8882, 8883, 8884, 8885, 8886, 8887, 8888, 8889, 8890,
       8891, 8893, 8894, 8895, 8896, 8897, 8898, 8899, 8900, 8901, 8902, 8903, 8904, 8905, 8906,
       8907, 8908, 8909, 8910, 8911, 8912, 8913, 8914, 8915, 8916, 8917, 8918, 8919, 8920, 8921,
       8922, 8923, 8926, 8927, 8928, 8929, 8930, 8931, 8934, 8935, 8936, 8937, 8938, 8939, 8940,
       8941, 8942, 8943, 8944, 8945, 8946, 8947, 8948, 8949, 8950, 8951, 8953, 8954, 8955, 8956,
       8957, 8958, 9136, 9137, 9140, 9141, 9142, 9180, 9181, 9182, 9183, 9186, 9191, 9600, 9604,
       9608, 9617, 9618, 9619, 9633, 9642, 9643, 9645, 9646, 9649, 9651, 9652, 9653, 9656, 9657,
       9661, 9662, 9663, 9666, 9667, 9674, 9675, 9708, 9711, 9720, 9721, 9722, 9723, 9724, 10184,
       10185, 10214, 10215, 10216, 10217, 10218, 10219, 10220, 10221, 10229, 10230, 10231, 10232,
       10233, 10234, 10236, 10239, 10629, 10630, 10635, 10636, 10637, 10638, 10639, 10640, 10641,
       10642, 10643, 10644, 10645, 10646, 10650, 10652, 10653, 10660, 10661, 10662, 10663, 10664,
       10665, 10666, 10667, 10668, 10669, 10670, 10671, 10672, 10673, 10674, 10675, 10676, 10677,
       10678, 10679, 10681, 10683, 10684, 10686, 10687, 10688, 10689, 10690, 10691, 10692, 10693,
       10697, 10701, 10702, 10703, 10704, 10716, 10717, 10718, 10723, 10724, 10725, 10731, 10740,
       10742, 10880, 10881, 10882, 10883, 10884, 10885, 10886, 10887, 10888, 10889, 10890, 10891,
       10892, 10893, 10894, 10895, 10896, 10897, 10898, 10899, 10900, 10901, 10902, 10903, 10904,
       10905, 10906, 10909, 10910, 10911, 10912, 10913, 10914, 10916, 10917, 10918, 10919, 10920,
       10921, 10922, 10923, 10924, 10925, 10926, 10927, 10928, 10931, 10932, 10933, 10934, 10935,
       10936, 10937, 10938, 10939, 10940, 10941, 10942, 10943, 10944, 10945, 10946, 10947, 10948,
       10949, 10950, 10951, 10952, 10955, 10956, 10959, 10960, 10961, 10962, 10963, 10964, 10965,
       10966, 10967, 10968, 10969, 10970, 10971, 10980, 10982, 10983, 10984, 10985, 10987, 10988,
       10989, 10990, 10991, 10992, 10993, 10994, 10995, 11005, 65533 >>

\* html.entities.html5, the names.
Html5Names == { Html5[k][1] : k \in 1..Len(Html5) } \cup Html5Unwritable

\* html5[name], for a name whose character the model can write.
Html5Value(name) == (CHOOSE entry \in { Html5[k] : k \in 1..Len(Html5) } : entry[1] = name)[2]

\* The characters of the code points 32 to 95, 97 to 126 and 160 to 255.
AsciiLow == " !\"#$%&'()*+,-./0123456789:;<=>?@ABCDEFGHIJKLMNOPQRSTUVWXYZ[\\]^_"
AsciiHigh == "abcdefghijklmnopqrstuvwxyz{|}~"
Latin1 ==
       " ¡¢£¤¥¦§¨©ª«¬­®¯°±²³´µ¶·¸¹º»¼½¾¿ÀÁÂÃÄÅÆÇÈÉÊËÌÍÎÏ"
    \o "ÐÑÒÓÔÕÖ×ØÙÚÛÜÝÞßàáâãäåæçèéêëìíîïðñòóôõö÷øùúûüýþÿ"

\* chr(num), for a character the model can write.
Chr(num) ==
    CASE num = 9 -> "\t"
      [] num = 10 -> "\n"
      [] num = 12 -> "\f"
      [] num \in 32..95 -> CharAt(AsciiLow, num - 31)
      [] num \in 97..126 -> CharAt(AsciiHigh, num - 96)
      [] num \in 160..255 -> CharAt(Latin1, num - 159)
      [] \E k \in 1..Len(OtherCodes) : OtherCodes[k] = num ->
            CharAt(OtherChars, CHOOSE k \in 1..Len(OtherCodes) : OtherCodes[k] = num)

\* num in _invalid_charrefs: 0, 13 and 128 to 159.
IsInvalidCharref(num) == num = 0 \/ num = 13 \/ num \in 128..159

\* _invalid_charrefs[num], for a character the model can write.
InvalidCharrefValue(num) ==
    (CHOOSE entry \in { InvalidCharrefs[k] : k \in 1..Len(InvalidCharrefs) } : entry[1] = num)[2]

\* num in _invalid_codepoints
IsInvalidCodepoint(num) ==
    \/ num \in 1..8 \/ num = 11 \/ num \in 14..31 \/ num \in 127..159
    \/ num \in 64976..65007
    \/ num % 65536 \in {65534, 65535}

\* [^\t\n\f <&#;]: the characters that end a reference name.
NameStops == "\t\n\f <&#;"

RECURSIVE NameRunEnd(_, _, _)
\* The end of the run of at most 32 name characters that starts at from.
NameRunEnd(s, from, taken) ==
    IF from > Len(s) \/ taken = 32 \/ IsCharOf(CharAt(s, from), NameStops) THEN from - 1
    ELSE NameRunEnd(s, from + 1, taken + 1)

RECURSIVE CharRunEnd(_, _, _)
\* The end of the run of characters of set that starts at from.
CharRunEnd(s, from, set) ==
    IF from > Len(s) \/ ~ IsCharOf(CharAt(s, from), set) THEN from - 1
    ELSE CharRunEnd(s, from + 1, set)

\* &(#[0-9]+;?|#[xX][0-9a-fA-F]+;?|[^\t\n\f <&#;]{1,32};?) at the start of s,
\* which starts with "&": the end of the match, 0 when there is none.
CharrefEnd(s) ==
    LET semi(e) == IF e < Len(s) /\ CharAt(s, e + 1) = ";" THEN e + 1 ELSE e
        d == CharRunEnd(s, 3, DigitChars)
        h == CharRunEnd(s, 4, HexDigits)
        e == NameRunEnd(s, 2, 0)
    IN  IF Len(s) >= 2 /\ CharAt(s, 2) = "#"
        THEN (IF d >= 3 THEN semi(d)
              ELSE IF Len(s) >= 3 /\ IsCharOf(CharAt(s, 3), "xX") /\ h >= 4 THEN semi(h)
              ELSE 0)
        ELSE IF e >= 2 THEN semi(e) ELSE 0

\* _replace_charref: what replaces the reference &s.  A number above
\* 0x10FFFF is held as 0x110000.
ReplaceCharref(s) ==
    IF CharAt(s, 1) = "#"
    THEN LET num == IF IsCharOf(CharAt(s, 2), "xX")
                    THEN DigitsValue(RStrip(SubSeq(s, 3, Len(s)), ";"), 16, 1114111, 0)
                    ELSE DigitsValue(RStrip(SubSeq(s, 2, Len(s)), ";"), 10, 1114111, 0)
         IN  IF IsInvalidCharref(num) THEN InvalidCharrefValue(num)
             ELSE IF num \in 55296..57343 \/ num > 1114111 THEN "�"
             ELSE IF IsInvalidCodepoint(num) THEN ""
             ELSE Chr(num)
    ELSE IF s \in Html5Names THEN Html5Value(s)
    ELSE LET xs == { x \in 2..(Len(s) - 1) : SubSeq(s, 1, x) \in Html5Names }
         IN  IF xs # {}
             THEN LET x == CHOOSE y \in xs : \A z \in xs : z <= y
                  IN  Html5Value(SubSeq(s, 1, x)) \o SubSeq(s, x + 1, Len(s))
             ELSE "&" \o s

RECURSIVE HtmlUnescape(_)
\* html.unescape(s): each reference is replaced, left to right.
HtmlUnescape(s) ==
    IF s = "" THEN ""
    ELSE IF CharAt(s, 1) # "&" THEN CharAt(s, 1) \o HtmlUnescape(SubSeq(s, 2, Len(s)))
    ELSE LET e == CharrefEnd(s)
         IN  IF e = 0 THEN "&" \o HtmlUnescape(SubSeq(s, 2, Len(s)))
             ELSE ReplaceCharref(SubSeq(s, 2, e)) \o HtmlUnescape(SubSeq(s, e + 1, Len(s)))

\* [a-zA-Z] | [0-9] | [$-_@.&+] | [!*\\(\\),] : "$-_" is the range from "$" to "_".
UrlChars ==
    LowerChars \o UpperChars \o DigitChars \o "$%&'()*+,-./:;<=>?@[\\]^_!"

RECURSIVE UrlRunEnd(_, _)
UrlRunEnd(s, from) ==
    IF from > Len(s) \/ ~ IsCharOf(CharAt(s, from), UrlChars) THEN from - 1
    ELSE UrlRunEnd(s, from + 1)

\* The length of the prefix http:// or https:// of s; 0 when it has neither.
UrlPrefixLen(s) ==
    IF StartsWith(s, "https://") THEN 8
    ELSE IF StartsWith(s, "http://") THEN 7
    ELSE 0

RECURSIVE RemoveUrls(_)
\* re.sub(r'http[s]?://(?:...)+', '', s)
RemoveUrls(s) ==
    IF s = "" THEN ""
    ELSE LET k == UrlPrefixLen(s)
             e == UrlRunEnd(s, k + 1)
         IN  IF k > 0 /\ e > k
             THEN RemoveUrls(SubSeq(s, e + 1, Len(s)))
             ELSE CharAt(s, 1) \o RemoveUrls(SubSeq(s, 2, Len(s)))

\* re.sub(r'\S+@\S+', '', s) on a string without whitespace: it goes when
\* it holds an "@" that is neither its first nor its last character.
RemoveEmailPiece(s) ==
    IF \E i \in 2..(Len(s) - 1) : CharAt(s, i) = "@" THEN "" ELSE s

RECURSIVE RemoveEmail(_)
\* re.sub(r'\S+@\S+', '', s): piece by piece between the whitespace of s.
RemoveEmail(s) ==
    LET i == FindCharOf(s, SpaceChars, 1)
    IN  IF i > Len(s) THEN RemoveEmailPiece(s)
        ELSE RemoveEmailPiece(SubSeq(s, 1, i - 1)) \o CharAt(s, i)
             \o RemoveEmail(SubSeq(s, i + 1, Len(s)))

\* [\w.,!?;:\-\(\)\'\"]: what the last substitution keeps, with whitespace.
KeptChars == LowerChars \o UpperChars \o DigitChars \o "_" \o WordOther \o ".,!?;:-()'\""

RECURSIVE StripSpecial(_)
\* re.sub(r'[^\w\s.,!?;:\-\(\)\'\"]+', '', s)
StripSpecial(s) ==
    IF s = "" THEN ""
    ELSE (IF IsCharOf(CharAt(s, 1), KeptChars \o SpaceChars) THEN CharAt(s, 1) ELSE "")
         \o StripSpecial(SubSeq(s, 2, Len(s)))

\* The entity, URL, e-mail and special-character steps, token by token.  A
\* space that a reference stands for parts the token that held it.
UnescapeText(t) ==
    Canon(SplitTokens([k \in 1..Len(t) |-> Run(HtmlUnescape(t[k].tok), t[k].n)], " "))

RemoveUrlsText(t) == [k \in 1..Len(t) |-> Run(RemoveUrls(t[k].tok), t[k].n)]

RemoveEmailText(t) == [k \in 1..Len(t) |-> Run(RemoveEmail(t[k].tok), t[k].n)]

StripSpecialText(t) == [k \in 1..Len(t) |-> Run(StripSpecial(t[k].tok), t[k].n)]

RECURSIVE TokenCount(_)
TokenCount(t) == IF t = <<>> THEN 0 ELSE Head(t).n + TokenCount(Tail(t))

\* re.sub(r'\s+', ' ', s): every run of whitespace becomes one space, so the
\* empty tokens between two tokens go, and one empty token stays at an end
\* that had any.
CollapseSpaces(text) ==
    LET t     == Canon(SplitTokens(text, SpaceChars))
        words == SelectSeq(t, LAMBDA r : r.tok # "")
    IN  IF t = <<>> THEN <<>>
        ELSE IF words = <<>> THEN (IF TokenCount(t) = 1 THEN <<>> ELSE <<Run("", 2)>>)
        ELSE (IF t[1].tok = "" THEN <<Run("", 1)>> ELSE <<>>)
             \o words
             \o (IF t[Len(t)].tok = "" THEN <<Run("", 1)>> ELSE <<>>)

\* clean_text(raw_text)
clean_text(raw_text) ==
    IF raw_text = <<>> THEN <<>>
    ELSE LET unescaped == UnescapeText(raw_text)
             no_urls   == RemoveUrlsText(unescaped)
             no_emails == RemoveEmailText(no_urls)
             collapsed == CollapseSpaces(Canon(no_emails))
             kept      == StripSpecialText(collapsed)
         IN  Canon(Strip(Canon(kept)))

-----------------------------------------------------------------------------
(* clean_text applied to a text, and again to its own output.              *)

\* The tokens of the raw texts: a word, a special character, the gap of a
\* double space, a URL, a URL with a special character inside its scheme, an
\* e-mail address, a word with a letter outside ASCII, and the character
\* references of a special character, of a blank and of a letter.
CleanTokens ==
    {"A", "*", "", "http://A.p", "ht*tp://A.p", "P@P.p", "café", "&amp;", "&nbsp;", "&#65;"}

\* The most tokens of a raw text.
MaxTokens == 3

CleanTexts ==
    UNION { { Canon([k \in 1..n |-> Run(f[k], 1)]) : f \in [1..n -> CleanTokens] } :
            n \in 0..MaxTokens }

InitClean ==
    /\ cln \in [pc : {"raw"}, raw : CleanTexts, once : {<<>>}, twice : {<<>>}]
    /\ cls = Idle /\ ext = Idle /\ scr = Idle /\ rd = Idle /\ cmp = Idle /\ run = Idle
    /\ ana = Idle /\ rea = Idle /\ amb = Idle /\ rty = Idle /\ srch = Idle /\ vld = Idle

\* clean_text(raw_text)
CleanOnce ==
    /\ cln.pc = "raw"
    /\ cln' = [cln EXCEPT !.pc = "cleaned", !.once = clean_text(cln.raw)]
    /\ UNCHANGED <<cls, ext, scr, rd, cmp, run, ana, rea, amb, rty, srch, vld>>

\* clean_text of the text clean_text returned.
CleanAgain ==
    /\ cln.pc = "cleaned"
    /\ cln' = [cln EXCEPT !.pc = "recleaned", !.twice = clean_text(cln.once)]
    /\ UNCHANGED <<cls, ext, scr, rd, cmp, run, ana, rea, amb, rty, srch, vld>>

NextClean == CleanOnce \/ CleanAgain

SpecClean == InitClean /\ [][NextClean]_vars

-----------------------------------------------------------------------------
(* modules/scraper.py: validate_content, scrape_webpage                    *)

\* re.split(r'[.!?]+', text): the characters that end a segment.
SentenceEnds == ".!?"

RECURSIVE SegScan(_, _, _, _)
\* One token read from its character from on: closed is the number of
\* segments that ended so far and are not empty after s.strip(), open says
\* whether the segment being read has a character that strip() leaves.
SegScan(s, from, open, closed) ==
    IF from > Len(s) THEN [open |-> open, closed |-> closed]
    ELSE IF IsCharOf(CharAt(s, from), SentenceEnds)
    THEN SegScan(s, from + 1, FALSE, closed + (IF open THEN 1 ELSE 0))
    ELSE IF IsCharOf(CharAt(s, from), SpaceChars)
    THEN SegScan(s, from + 1, open, closed)
    ELSE SegScan(s, from + 1, TRUE, closed)

RECURSIVE SegRuns(_, _, _)
SegRuns(t, open, closed) ==
    IF t = <<>> THEN closed + (IF open THEN 1 ELSE 0)
    ELSE LET r     == Head(t)
             first == SegScan(r.tok, 1, open, 0)
             again == SegScan(r.tok, 1, first.open, 0)
         IN  SegRuns(Tail(t), IF r.n > 1 THEN again.open ELSE first.open,
                     closed + first.closed + (r.n - 1) * again.closed)

\* len([s.strip() for s in re.split(r'[.!?]+', text) if s.strip()])
SentenceCount(text) == SegRuns(text, FALSE, 0)

\* boilerplate_patterns, each as the list of its words.
boilerplate_patterns ==
    << <<"copyright">>, <<"all", "rights", "reserved">>, <<"terms", "of", "service">>,
       <<"privacy", "policy">>, <<"cookie", "policy">>, <<"accept", "cookies">> >>

RECURSIVE CountIn(_, _, _)
\* s.count(p): the occurrences of p in s from the character from on, read
\* left to right without overlap.
CountIn(s, p, from) ==
    IF from + Len(p) - 1 > Len(s) THEN 0
    ELSE IF SubSeq(s, from, from + Len(p) - 1) = p THEN 1 + CountIn(s, p, from + Len(p))
    ELSE CountIn(s, p, from + 1)

RECURSIVE TokAt(_, _)
\* The i-th token of the text.
TokAt(t, i) == IF i <= Head(t).n THEN Head(t).tok ELSE TokAt(Tail(t), i - Head(t).n)

\* The occurrences of the pattern that start in the first of the given
\* consecutive tokens: a pattern of one word occurs inside a token, a pattern
\* of several words ends the first token, is the tokens between and starts
\* the last.
WindowMatches(toks, words) ==
    LET w == Len(words)
    IN  IF w = 1 THEN CountIn(toks[1], words[1], 1)
        ELSE IF /\ EndsWith(toks[1], words[1])
                /\ StartsWith(toks[w], words[w])
                /\ \A k \in 2..(w - 1) : toks[k] = words[k]
        THEN 1 ELSE 0

\* text.lower().count(pattern).  No pattern overlaps itself, so the count is
\* the number of places where the pattern occurs: those inside one run of
\* equal tokens, and those that start in the last tokens of a run and go on
\* into the next runs.
PatternCount(text, words) ==
    LET w == Len(words)
        N == TokenCount(text)
        start(j) == 1 + TokenCount(SubSeq(text, 1, j - 1))
        window(p) == [k \in 1..w |-> ToLower(TokAt(text, p + k - 1))]
        inside(j) ==
            IF text[j].n >= w
            THEN (text[j].n - w + 1) * WindowMatches([k \in 1..w |-> ToLower(text[j].tok)], words)
            ELSE 0
        across(j) ==
            SeqSum([o \in 1..(w - 1) |->
                       LET p == start(j) + text[j].n - o
                       IN  IF o <= text[j].n /\ p + w - 1 <= N
                           THEN WindowMatches(window(p), words) ELSE 0])
    IN  SeqSum([j \in 1..Len(text) |-> inside(j) + across(j)])

\* sum(text.lower().count(pattern) for pattern in boilerplate_patterns)
BoilerplateCount(text) ==
    SeqSum([i \in 1..Len(boilerplate_patterns) |-> PatternCount(text, boilerplate_patterns[i])])

\* The warnings validate_content logs for a text that passed the two length
\* gates.
ValidationWarnings(text) ==
    (IF SentenceCount(text) < 3 THEN {"few_sentences"} ELSE {})
    \cup (IF BoilerplateCount(text) > 8 THEN {"high_boilerplate"} ELSE {})

\* A variant of validate_content in which the sentence check and the
\* boilerplate check reject the text.
validate_content_hard_checks(text) ==
    IF text = <<>> THEN [is_valid |-> FALSE, issues |-> <<"Empty text">>]
    ELSE IF WordCount(text) < MIN_WORD_COUNT
    THEN [is_valid |-> FALSE, issues |-> <<"Text too short">>]
    ELSE IF WordCount(text) > MAX_WORD_COUNT
    THEN [is_valid |-> FALSE, issues |-> <<"Text too long">>]
    ELSE IF ValidationWarnings(text) # {}
    THEN [is_valid |-> FALSE, issues |-> <<"Low quality">>]
    ELSE [is_valid |-> TRUE, issues |-> <<>>]

\* A variant of validate_content whose minimum gate also rejects a text of
\* exactly MIN_WORD_COUNT words.
validate_content_min_excluded(text) ==
    IF text = <<>> THEN [is_valid |-> FALSE, issues |-> <<"Empty text">>]
    ELSE IF WordCount(text) <= MIN_WORD_COUNT
    THEN [is_valid |-> FALSE, issues |-> <<"Text too short">>]
    ELSE IF WordCount(text) > MAX_WORD_COUNT
    THEN [is_valid |-> FALSE, issues |-> <<"Text too long">>]
    ELSE [is_valid |-> TRUE, issues |-> <<>>]

\* A variant of validate_content without the maximum gate.
validate_content_no_maximum(text) ==
    IF text = <<>> THEN [is_valid |-> FALSE, issues |-> <<"Empty text">>]
    ELSE IF WordCount(text) < MIN_WORD_COUNT
    THEN [is_valid |-> FALSE, issues |-> <<"Text too short">>]
    ELSE [is_valid |-> TRUE, issues |-> <<>>]

\* validate_content(text): (is_valid, issues).  The sentence check and the
\* boilerplate check only log the warnings of ValidationWarnings(text) and
\* leave the result alone.
validate_content(text) ==
    IF text = <<>> THEN [is_valid |-> FALSE, issues |-> <<"Empty text">>]
    ELSE IF WordCount(text) < MIN_WORD_COUNT
    THEN [is_valid |-> FALSE, issues |-> <<"Text too short">>]
    ELSE IF WordCount(text) > MAX_WORD_COUNT
    THEN [is_valid |-> FALSE, issues |-> <<"Text too long">>]
    ELSE [is_valid |-> TRUE, issues |-> <<>>]

\* What requests.get and the parser do with a URL: the request times out,
\* fails with another RequestException, any other exception is raised inside
\* the try block, or a response with a status code and a document arrives.
FetchKinds == {"timeout", "request_error", "exception", "response"}

\* The status an exception inside a scrape that has no handler for it would
\* leave to the caller.
Uncaught == "uncaught"

\* A variant of the handlers without the last one (except Exception).
ExceptStatusNoCatchAll(kind) ==
    CASE kind = "timeout" -> "timeout"
      [] kind = "request_error" -> "request_error"
      [] OTHER -> Uncaught

\* The except clauses of scrape_webpage: the status each exception leaves.
ExceptStatus(kind) ==
    CASE kind = "timeout" -> "timeout"
      [] kind = "request_error" -> "request_error"
      [] OTHER -> "error"

\* scrape_webpage(url), given what the fetch of url does.
scrape_webpage(url, fetch) ==
    LET result == [url |-> url, content |-> Nothing, word_count |-> 0,
                   status |-> "success", error_msg |-> None]
    IN  IF fetch.kind # "response"
        THEN [result EXCEPT !.status = ExceptStatus(fetch.kind), !.error_msg = fetch.kind]
        ELSE IF fetch.code # "200"
        THEN [result EXCEPT !.status = "http_error_" \o fetch.code,
                            !.error_msg = "HTTP " \o fetch.code]
        ELSE LET content == extract_main_content(fetch.doc)
             IN  IF ~ content.ok \/ content.text = <<>>
                 THEN [result EXCEPT !.status = "extraction_failed",
                                     !.error_msg = "Could not extract content"]
                 ELSE LET cleaned_content == clean_text(content.text)
                          v == validate_content(cleaned_content)
                      IN  IF ~ v.is_valid
                          THEN [result EXCEPT !.status = "insufficient_text",
                                              !.error_msg = v.issues[1],
                                              !.content = Found(cleaned_content),
                                              !.word_count = WordCount(cleaned_content)]
                          ELSE [result EXCEPT !.content = Found(cleaned_content),
                                              !.word_count = WordCount(cleaned_content)]

\* <html><body>text</body></html>
BodyDoc(text) ==
    << Node("html", "", "", <<>>, <<>>, 0), Node("body", "", "", text, <<>>, 1) >>

\* Page texts around the two length gates, and texts that normalization
\* shortens or empties.
PageTexts ==
    { Words("A", MIN_WORD_COUNT - 1),
      Words("A", MIN_WORD_COUNT),
      Words("A", MIN_WORD_COUNT) \o Words("http://A.p/s", 1),
      Words("A", MIN_WORD_COUNT - 1) \o Words("P@P.p", 1) \o Words("*", 2) \o Words("&AMP;", 1),
      Words("M", MAX_WORD_COUNT),
      Words("M", MAX_WORD_COUNT + 1),
      Words("https://A.p", 2),
      Words("**", 1) \o Words("A@M", MIN_WORD_COUNT),
      Words("A.", MIN_WORD_COUNT),
      Words("A", MIN_WORD_COUNT - 2) \o Words("A!", 2),
      Words("A", MIN_WORD_COUNT - 3) \o Words("A?", 3),
      Words("Copyright", MIN_WORD_COUNT),
      Words("copyright.", 8) \o Words("A.", MIN_WORD_COUNT),
      Words("copyright.", 9) \o Words("A.", MIN_WORD_COUNT),
      Words("A.", MIN_WORD_COUNT) \o Words("All", 1) \o Words("rights", 1) \o Words("reserved.", 1)
          \o Words("Privacy", 1) \o Words("policy.", 1) \o Words("copyrightcopyright", 3)
          \o Words("Accept", 1) \o Words("cookies", 1),
      Words("A.", MIN_WORD_COUNT) \o Words("Terms", 1) \o Words("of", 1) \o Words("service", 1)
          \o Words("policy", 1) \o Words("cookie", 7) }

ScrapeDocs == ExtractDocs \cup { BodyDoc(t) : t \in PageTexts }

StatusCodes == {"200", "404", "500"}

Fetches(docs) ==
    { [kind |-> k, code |-> "", doc |-> <<>>] : k \in FetchKinds \ {"response"} }
    \cup { [kind |-> "response", code |-> c, doc |-> <<>>] : c \in StatusCodes \ {"200"} }
    \cup { [kind |-> "response", code |-> "200", doc |-> d] : d \in docs }

InitScrape ==
    /\ scr \in [pc : {"ready"}, url : {"https://www.cdc.gov/x"}, fetch : Fetches(ScrapeDocs),
                result : {None}]
    /\ cls = Idle /\ ext = Idle /\ rd = Idle /\ cmp = Idle /\ run = Idle /\ ana = Idle /\ rea = Idle
    /\ amb = Idle /\ rty = Idle /\ srch = Idle /\ cln = Idle /\ vld = Idle

\* One call scrape_webpage(url).
Scrape ==
    /\ scr.pc = "ready"
    /\ scr' = [scr EXCEPT !.pc = "scraped", !.result = scrape_webpage(scr.url, scr.fetch)]
    /\ UNCHANGED <<cls, ext, rd, cmp, run, ana, rea, amb, rty, srch, cln, vld>>

NextScrape == Scrape

SpecScrape == InitScrape /\ [][NextScrape]_vars

(* validate_content on its own.  The texts are cleaned texts and texts no    *)
(* clean_text returns: with a tab inside a word, with nothing but a tab       *)
(* between two sentence ends, with blanks at both ends.                       *)

\* The word a text repeats: without a sentence end, a sentence, two sentence
\* ends with a tab between, two words with a tab between.
ValidateWords == {"a", "a.", ".\t.", "a\tb."}

\* How often the word is repeated.
ValidateRepeats ==
    {MIN_WORD_COUNT \div 2, MIN_WORD_COUNT - 1, MIN_WORD_COUNT, MAX_WORD_COUNT \div 2,
     MAX_WORD_COUNT, MAX_WORD_COUNT + 1}

\* The boilerplate at the end of a text: none; 8 phrases; 9 phrases in
\* capitals; 9 phrases, and one more that a tab breaks.
ValidateBoilerplate ==
    { <<>>,
      Words("Copyright.", 8),
      Words("COPYRIGHT", 9),
      Words("Terms\tof", 1) \o Words("service", 1) \o Words("copyrightcopyright", 4)
          \o Words("Accept", 1) \o Words("cookies", 1) }

ValidateTexts ==
    { Canon((IF blanks THEN Padded(Words(w, n) \o bp) ELSE Words(w, n) \o bp)) :
          blanks \in BOOLEAN, w \in ValidateWords, n \in ValidateRepeats,
          bp \in ValidateBoilerplate }
    \cup { <<>> }

InitValidate ==
    /\ vld \in [pc : {"text"}, text : ValidateTexts, result : {None}, warnings : {{}}]
    /\ cls = Idle /\ ext = Idle /\ scr = Idle /\ rd = Idle /\ cmp = Idle /\ run = Idle
    /\ ana = Idle /\ rea = Idle /\ amb = Idle /\ rty = Idle /\ srch = Idle /\ cln = Idle

\* One call validate_content(text): the result, and the warnings it logged
\* on the way.
Validate ==
    /\ vld.pc = "text"
    /\ vld' = [vld EXCEPT !.pc = "validated",
                          !.result = validate_content(vld.text),
                          !.warnings = IF validate_content(vld.text).is_valid
                                       THEN ValidationWarnings(vld.text) ELSE {}]
    /\ UNCHANGED <<cls, ext, scr, rd, cmp, run, ana, rea, amb, rty, srch, cln>>

NextValidate == Validate

SpecValidate == InitValidate /\ [][NextValidate]_vars

-----------------------------------------------------------------------------
(* modules/scraper.py: scrape_with_retry                                   *)

\* The statuses after which scrape_with_retry tries again.
RetryStatuses == {"timeout", "http_error_500", "http_error_502", "http_error_503"}

\* if attempt < max_attempts - 1: a sleep follows the failed attempt.
SleepsAfter(attempt, max_attempts) == attempt < max_attempts - 1

\* wait_time = 2 ** attempt
WaitTime(attempt) == 2 ^ attempt

\* The name result before the first turn of the loop bound it.
Unbound ==
    [url |-> "", content |-> Nothing, word_count |-> 0, status |-> "unbound", error_msg |-> None]

\* The most attempts a caller asks for.
MaxAttempts == 3

\* What the fetch of the URL does at one attempt: a timeout, a connection
\* error, the statuses 404, 500, 502, 503 and 504, a page that validates and
\* a page that is too short.
RetryFetches ==
    { [kind |-> k, code |-> "", doc |-> <<>>] : k \in {"timeout", "request_error"} }
    \cup { [kind |-> "response", code |-> c, doc |-> <<>>] :
             c \in {"404", "500", "502", "503", "504"} }
    \cup { [kind |-> "response", code |-> "200", doc |-> BodyDoc(t)] :
             t \in {Words("A", MIN_WORD_COUNT), Words("A", MIN_WORD_COUNT - 1)} }

InitRetry ==
    /\ rty \in [pc : {"loop"}, url : {"https://www.cdc.gov/x"}, max_attempts : 0..MaxAttempts,
                attempt : {0}, statuses : {<<>>}, sleeps : {<<>>}, result : {Unbound},
                returned : {Unbound}]
    /\ cls = Idle /\ ext = Idle /\ scr = Idle /\ rd = Idle /\ cmp = Idle /\ run = Idle
    /\ ana = Idle /\ rea = Idle /\ amb = Idle /\ srch = Idle /\ cln = Idle /\ vld = Idle

\* The state of the call after the attempt that ended with result: a
\* success is returned at once, a status that is not retried leaves the
\* loop, a retried status sleeps unless the attempt was the last.
AfterAttempt(r, result) ==
    [r EXCEPT
       !.result = result,
       !.statuses = Append(@, result.status),
       !.sleeps = IF result.status \in RetryStatuses /\ SleepsAfter(r.attempt, r.max_attempts)
                  THEN Append(@, WaitTime(r.attempt)) ELSE @,
       !.attempt = IF result.status \in RetryStatuses THEN @ + 1 ELSE @,
       !.returned = IF result.status = "success" THEN result ELSE @,
       !.pc = IF result.status = "success" THEN "returned"
              ELSE IF result.status \in RetryStatuses THEN "loop"
              ELSE "break"]

\* One turn of the loop for attempt in range(max_attempts): one call of
\* scrape_webpage and what follows from its result.
Attempt ==
    /\ rty.pc = "loop" /\ rty.attempt < rty.max_attempts
    /\ \E fetch \in RetryFetches : rty' = AfterAttempt(rty, scrape_webpage(rty.url, fetch))
    /\ UNCHANGED <<cls, ext, scr, rd, cmp, run, ana, rea, amb, srch, cln, vld>>

\* return result after the loop: an UnboundLocalError when no turn of the
\* loop bound the name.
ReturnLast ==
    /\ \/ rty.pc = "break"
       \/ rty.pc = "loop" /\ rty.attempt >= rty.max_attempts
    /\ rty' = [rty EXCEPT !.pc = IF rty.result = Unbound THEN "raised" ELSE "returned",
                          !.returned = rty.result]
    /\ UNCHANGED <<cls, ext, scr, rd, cmp, run, ana, rea, amb, srch, cln, vld>>

NextRetry == Attempt \/ ReturnLast

SpecRetry == InitRetry /\ [][NextRetry]_vars

-----------------------------------------------------------------------------
(* modules/readability.py: calculate_readability                           *)
(*                                                                         *)
(* The four formulas are the textstat library's.  What a call of the       *)
(* library does is an input here: it raises, or it returns four floats     *)
(* (a float is NaN or a number, held as a whole number of grade levels)    *)
(* and the two counts.  A mean is held as the sum of its terms and their   *)
(* number.                                                                 *)

ScoreKeys == <<"GFI", "SMOG", "FKG", "ARI">>

NaN == [nan |-> TRUE, v |-> 0]
Float(v) == [nan |-> FALSE, v |-> v]

\* A value of the metrics dictionary under a score key: None, or a number.
NullScore == [null |-> TRUE, v |-> 0]
Score(v) == [null |-> FALSE, v |-> v]

\* mean_readability: None, or the mean sum / n.
NullMean == [null |-> TRUE, sum |-> 0, n |-> 0]
Mean(sum, n) == [null |-> FALSE, sum |-> sum, n |-> n]

\* calculate_readability returned None.
NoMetrics ==
    [returned |-> FALSE, GFI |-> NullScore, SMOG |-> NullScore, FKG |-> NullScore,
     ARI |-> NullScore, word_count |-> 0, sentence_count |-> 0, syllable_count |-> 0,
     mean_readability |-> NullMean]

\* The body of the loop that validates the scores: the value left under the key.
ValidateScore(value) ==
    IF value.nan \/ value.v < 0 \/ value.v > 30 THEN NullScore ELSE Score(value.v)

RECURSIVE SumValid(_, _)
SumValid(metrics, keys) ==
    IF keys = <<>> THEN 0
    ELSE (IF metrics[Head(keys)].null THEN 0 ELSE metrics[Head(keys)].v)
         + SumValid(metrics, Tail(keys))

RECURSIVE CountValid(_, _)
CountValid(metrics, keys) ==
    IF keys = <<>> THEN 0
    ELSE (IF metrics[Head(keys)].null THEN 0 ELSE 1) + CountValid(metrics, Tail(keys))

\* np.mean(valid_scores) if valid_scores else None
MeanReadability(metrics) ==
    IF CountValid(metrics, ScoreKeys) > 0
    THEN Mean(SumValid(metrics, ScoreKeys), CountValid(metrics, ScoreKeys))
    ELSE NullMean

\* The log line formats mean_readability with ":.1f": a TypeError when the
\* mean is None.
LogMeanRaises(mean) == mean.null

calculate_readability(text, lib) ==
    IF text = <<>> THEN NoMetrics
    ELSE IF WordCount(text) < MIN_WORD_COUNT THEN NoMetrics
    ELSE IF lib.raises THEN NoMetrics
    ELSE LET validated ==
                 [returned |-> TRUE,
                  GFI  |-> ValidateScore(lib.GFI),
                  SMOG |-> ValidateScore(lib.SMOG),
                  FKG  |-> ValidateScore(lib.FKG),
                  ARI  |-> ValidateScore(lib.ARI),
                  word_count |-> WordCount(text),
                  sentence_count |-> lib.sentence_count,
                  syllable_count |-> lib.syllable_count,
                  mean_readability |-> NullMean]
             metrics == [validated EXCEPT !.mean_readability = MeanReadability(validated)]
         IN  IF LogMeanRaises(metrics.mean_readability) THEN NoMetrics ELSE metrics

\* Floats around the two ends of the accepted range.
LibFloats == {NaN, Float(-1), Float(0), Float(12), Float(30), Float(31)}

LibRaises ==
    [raises |-> TRUE, GFI |-> NaN, SMOG |-> NaN, FKG |-> NaN, ARI |-> NaN,
     sentence_count |-> 0, syllable_count |-> 0]

LibOutcomes ==
    {LibRaises} \cup
    [raises : {FALSE}, GFI : LibFloats, SMOG : LibFloats, FKG : LibFloats, ARI : LibFloats,
     sentence_count : {3}, syllable_count : {75}]

ReadabilityTexts ==
    { <<>>, Words("", 2), Words("A", MIN_WORD_COUNT - 1), Words("A", MIN_WORD_COUNT),
      Words("A", MIN_WORD_COUNT + 1) }

InitReadability ==
    /\ rd \in [pc : {"ready"}, text : ReadabilityTexts, lib : LibOutcomes, result : {NoMetrics}]
    /\ cls = Idle /\ ext = Idle /\ scr = Idle /\ cmp = Idle /\ run = Idle /\ ana = Idle /\ rea = Idle
    /\ amb = Idle /\ rty = Idle /\ srch = Idle /\ cln = Idle /\ vld = Idle

\* One call calculate_readability(text).
Score_Text ==
    /\ rd.pc = "ready"
    /\ rd' = [rd EXCEPT !.pc = "scored", !.result = calculate_readability(rd.text, rd.lib)]
    /\ UNCHANGED <<cls, ext, scr, cmp, run, ana, rea, amb, rty, srch, cln, vld>>

NextReadability == Score_Text

SpecReadability == InitReadability /\ [][NextReadability]_vars

-----------------------------------------------------------------------------
(* The float64 arithmetic of numpy and pandas                              *)
(*                                                                         *)
(* A natural number of any size is the sequence of its digits in base      *)
(* 2^15 (limbs), the lowest first, without a zero as its highest limb.     *)
(* A float64 is NaN, an infinity, or the number (-1)^neg * m * 2^e with m  *)
(* odd (m and e are 0 for a zero).  Every operation returns the float64    *)
(* nearest to its exact result, a tie going to the even mantissa of 53     *)
(* bits (IEEE 754 binary64, with gradual underflow and overflow to an      *)
(* infinity).                                                              *)

\* The width of a limb: the product of two limbs, and a carry, fit the
\* integers the arithmetic is computed with.
LimbBits == 15

LimbBase == 2^LimbBits

Max2(a, b) == IF a >= b THEN a ELSE b

Min2(a, b) == IF a <= b THEN a ELSE b

RECURSIVE BigFromNat(_)
BigFromNat(n) == IF n = 0 THEN <<>> ELSE <<n % LimbBase>> \o BigFromNat(n \div LimbBase)

RECURSIVE BigTrim(_)
\* a without its highest limbs that are 0
BigTrim(a) ==
    IF a = <<>> THEN a
    ELSE IF a[Len(a)] = 0 THEN BigTrim(SubSeq(a, 1, Len(a) - 1))
    ELSE a

RECURSIVE BigCmpFrom(_, _, _)
BigCmpFrom(a, b, i) ==
    IF i = 0 THEN 0
    ELSE IF a[i] < b[i] THEN -1
    ELSE IF a[i] > b[i] THEN 1
    ELSE BigCmpFrom(a, b, i - 1)

\* -1, 0 or 1 as a is below, equal to or above b
BigCmp(a, b) ==
    IF Len(a) < Len(b) THEN -1
    ELSE IF Len(a) > Len(b) THEN 1
    ELSE BigCmpFrom(a, b, Len(a))

RECURSIVE BigAddC(_, _, _)
\* a + b + c, for a carry c of 0 or 1
BigAddC(a, b, c) ==
    IF a = <<>> /\ b = <<>> THEN (IF c = 0 THEN <<>> ELSE <<c>>)
    ELSE IF a = <<>> THEN <<(Head(b) + c) % LimbBase>>
                          \o BigAddC(a, Tail(b), (Head(b) + c) \div LimbBase)
    ELSE IF b = <<>> THEN <<(Head(a) + c) % LimbBase>>
                          \o BigAddC(Tail(a), b, (Head(a) + c) \div LimbBase)
    ELSE <<(Head(a) + Head(b) + c) % LimbBase>>
         \o BigAddC(Tail(a), Tail(b), (Head(a) + Head(b) + c) \div LimbBase)

BigAdd(a, b) == BigAddC(a, b, 0)

BigInc(a) == BigAddC(a, <<>>, 1)

RECURSIVE BigSubB(_, _, _)
\* a - b - w for a borrow w of 0 or 1 and a >= b + w, not trimmed
BigSubB(a, b, w) ==
    IF a = <<>> THEN <<>>
    ELSE IF b = <<>>
    THEN (IF Head(a) - w < 0
          THEN <<Head(a) - w + LimbBase>> \o BigSubB(Tail(a), b, 1)
          ELSE <<Head(a) - w>> \o BigSubB(Tail(a), b, 0))
    ELSE (IF Head(a) - Head(b) - w < 0
          THEN <<Head(a) - Head(b) - w + LimbBase>> \o BigSubB(Tail(a), Tail(b), 1)
          ELSE <<Head(a) - Head(b) - w>> \o BigSubB(Tail(a), Tail(b), 0))

\* a - b, for a >= b
BigSub(a, b) == BigTrim(BigSubB(a, b, 0))

RECURSIVE BigMulLimb(_, _, _)
\* a * k + c, for a limb k > 0 and a carry c
BigMulLimb(a, k, c) ==
    IF a = <<>> THEN (IF c = 0 THEN <<>> ELSE <<c>>)
    ELSE <<(Head(a) * k + c) % LimbBase>>
         \o BigMulLimb(Tail(a), k, (Head(a) * k + c) \div LimbBase)

RECURSIVE BigMul(_, _)
BigMul(a, b) ==
    IF a = <<>> \/ b = <<>> THEN <<>>
    ELSE BigAdd(IF Head(b) = 0 THEN <<>> ELSE BigMulLimb(a, Head(b), 0),
                IF Tail(b) = <<>> THEN <<>> ELSE <<0>> \o BigMul(a, Tail(b)))

\* a * 2^n
BigShl(a, n) ==
    IF a = <<>> THEN <<>>
    ELSE [i \in 1..(n \div LimbBits) |-> 0] \o BigMulLimb(a, 2^(n % LimbBits), 0)

\* floor(d / 2^r), for r below LimbBits
BigShrBits(d, r) ==
    BigTrim([i \in 1..Len(d) |->
                (d[i] \div 2^r)
                + (IF i < Len(d) THEN (d[i + 1] % 2^r) * 2^(LimbBits - r) ELSE 0)])

\* floor(a / 2^n)
BigShr(a, n) ==
    IF n \div LimbBits >= Len(a) THEN <<>>
    ELSE BigShrBits(SubSeq(a, n \div LimbBits + 1, Len(a)), n % LimbBits)

\* a mod 2^n
BigLow(a, n) ==
    BigTrim([i \in 1..Min2(Len(a), n \div LimbBits + 1) |->
                IF i = n \div LimbBits + 1 THEN a[i] % 2^(n % LimbBits) ELSE a[i]])

RECURSIVE NatBitLen(_)
NatBitLen(n) == IF n = 0 THEN 0 ELSE 1 + NatBitLen(n \div 2)

\* The number of bits of a.
BigBitLen(a) == IF a = <<>> THEN 0 ELSE LimbBits * (Len(a) - 1) + NatBitLen(a[Len(a)])

RECURSIVE BigQuotientDigit(_, _, _, _)
\* The greatest digit d with b * d <= c, for c < b * LimbBase: the bits of d
\* are tried from the highest, acc being the bits set so far.
BigQuotientDigit(c, b, bit, acc) ==
    IF bit < 0 THEN acc
    ELSE IF BigCmp(BigMulLimb(b, acc + 2^bit, 0), c) <= 0
    THEN BigQuotientDigit(c, b, bit - 1, acc + 2^bit)
    ELSE BigQuotientDigit(c, b, bit - 1, acc)

\* The quotient q of the higher limbs with the digit d, and what c leaves.
BigDivDigit(q, c, b, d) ==
    [q |-> BigTrim(<<d>> \o q), r |-> IF d = 0 THEN c ELSE BigSub(c, BigMulLimb(b, d, 0))]

\* The greatest digit d with b * d <= c, for c < b * LimbBase; c has two
\* limbs at most when b has one.
BigDigit(c, b) ==
    IF Len(b) > 1 THEN BigQuotientDigit(c, b, LimbBits - 1, 0)
    ELSE IF c = <<>> THEN 0
    ELSE IF Len(c) = 1 THEN c[1] \div b[1]
    ELSE (c[2] * LimbBase + c[1]) \div b[1]

\* One step of the long division: h is the quotient and the remainder of the
\* higher limbs, x the next limb.
BigDivLimb(h, x, b) ==
    BigDivDigit(h.q, BigTrim(<<x>> \o h.r), b, BigDigit(BigTrim(<<x>> \o h.r), b))

RECURSIVE BigDivMod(_, _)
\* floor(a / b) and a mod b, for b > 0
BigDivMod(a, b) ==
    IF a = <<>> THEN [q |-> <<>>, r |-> <<>>]
    ELSE BigDivLimb(BigDivMod(Tail(a), b), Head(a), b)

RECURSIVE BigRootDigit(_, _, _, _)
\* The greatest s + d with (s + d)^2 <= a, for a digit d: the bits of d are
\* tried from the highest, acc being the bits set so far.
BigRootDigit(a, s, bit, acc) ==
    IF bit < 0 THEN BigAdd(s, BigFromNat(acc))
    ELSE IF BigCmp(BigMul(BigAdd(s, <<acc + 2^bit>>), BigAdd(s, <<acc + 2^bit>>)), a) <= 0
    THEN BigRootDigit(a, s, bit - 1, acc + 2^bit)
    ELSE BigRootDigit(a, s, bit - 1, acc)

RECURSIVE BigSqrt(_)
\* floor(sqrt(a)): the root of a without its two lowest limbs, and one digit
\* more
BigSqrt(a) ==
    IF a = <<>> THEN <<>>
    ELSE BigRootDigit(a, BigShl(BigSqrt(SubSeq(a, 3, Len(a))), LimbBits), LimbBits - 1, 0)

F64NaN == [nan |-> TRUE, inf |-> FALSE, neg |-> FALSE, m |-> <<>>, e |-> 0]

F64Inf(neg) == [nan |-> FALSE, inf |-> TRUE, neg |-> neg, m |-> <<>>, e |-> 0]

F64Zero(neg) == [nan |-> FALSE, inf |-> FALSE, neg |-> neg, m |-> <<>>, e |-> 0]

RECURSIVE TrailingZeros(_)
TrailingZeros(n) == IF n % 2 = 1 THEN 0 ELSE 1 + TrailingZeros(n \div 2)

RECURSIVE F64Odd(_, _, _)
\* m * 2^e for m > 0, the mantissa made odd
F64Odd(neg, m, e) ==
    IF Head(m) = 0 THEN F64Odd(neg, Tail(m), e + LimbBits)
    ELSE [nan |-> FALSE, inf |-> FALSE, neg |-> neg,
          m |-> BigShr(m, TrailingZeros(Head(m))), e |-> e + TrailingZeros(Head(m))]

\* m * 2^e, a number that needs no rounding: an infinity from 2^1024 on
F64Finite(neg, m, e) ==
    IF m = <<>> THEN F64Zero(neg)
    ELSE IF BigBitLen(m) + e > 1024 THEN F64Inf(neg)
    ELSE F64Odd(neg, m, e)

\* q * 2^e plus a remainder that compares as c with half a unit of q: the
\* nearer neighbour, the even one at a tie
F64RoundUp(neg, q, c, e) ==
    F64Finite(neg,
              IF c > 0 \/ (c = 0 /\ q # <<>> /\ Head(q) % 2 = 1) THEN BigInc(q) ELSE q,
              e)

\* m * 2^e rounded at the bit of weight 2^(e + shift)
F64RoundAt(neg, m, e, shift) ==
    IF shift <= 0 THEN F64Finite(neg, m, e)
    ELSE F64RoundUp(neg, BigShr(m, shift),
                    BigCmp(BigLow(m, shift), BigShl(<<1>>, shift - 1)), e + shift)

\* The float64 nearest to (-1)^neg * m * 2^e: 53 bits of mantissa, fewer
\* below 2^-1022.
F64Round(neg, m, e) == F64RoundAt(neg, m, e, Max2(BigBitLen(m) - 53, (-1074) - e))

\* float(n) of an integer n
F64FromInt(n) == F64Round(n < 0, BigFromNat(IF n < 0 THEN -n ELSE n), 0)

F64Neg(x) == IF x.nan THEN x ELSE [x EXCEPT !.neg = ~ @]

\* The sum of two numbers whose mantissas a and b are at the same exponent.
F64AddAligned(aneg, a, bneg, b, e) ==
    IF aneg = bneg THEN F64Round(aneg, BigAdd(a, b), e)
    ELSE IF BigCmp(a, b) > 0 THEN F64Round(aneg, BigSub(a, b), e)
    ELSE IF BigCmp(a, b) < 0 THEN F64Round(bneg, BigSub(b, a), e)
    ELSE F64Zero(FALSE)

F64AddFinite(x, y, e) ==
    F64AddAligned(x.neg, BigShl(x.m, x.e - e), y.neg, BigShl(y.m, y.e - e), e)

\* x + y
F64Add(x, y) ==
    IF x.nan \/ y.nan THEN F64NaN
    ELSE IF x.inf /\ y.inf THEN (IF x.neg = y.neg THEN x ELSE F64NaN)
    ELSE IF x.inf THEN x
    ELSE IF y.inf THEN y
    ELSE F64AddFinite(x, y, Min2(x.e, y.e))

\* x - y
F64Sub(x, y) == F64Add(x, F64Neg(y))

\* x * y
F64Mul(x, y) ==
    IF x.nan \/ y.nan THEN F64NaN
    ELSE IF x.inf \/ y.inf
    THEN (IF (~ x.inf /\ x.m = <<>>) \/ (~ y.inf /\ y.m = <<>>) THEN F64NaN
          ELSE F64Inf(x.neg # y.neg))
    ELSE F64Round(x.neg # y.neg, BigMul(x.m, y.m), x.e + y.e)

\* The quotient floor d.q with remainder d.r, at exponent e: a bit below the
\* quotient says whether a remainder is left.
F64Quotient(neg, d, e) ==
    F64Round(neg, BigAddC(BigAdd(d.q, d.q), <<>>, IF d.r = <<>> THEN 0 ELSE 1), e - 1)

\* The dividend is shifted by k bits, for a quotient of 56 bits or more.
F64DivFinite(x, y, k) ==
    F64Quotient(x.neg # y.neg, BigDivMod(BigShl(x.m, k), y.m), x.e - y.e - k)

\* x / y of numpy: a division by zero gives an infinity, or NaN for 0 / 0
F64Div(x, y) ==
    IF x.nan \/ y.nan THEN F64NaN
    ELSE IF x.inf THEN (IF y.inf THEN F64NaN ELSE F64Inf(x.neg # y.neg))
    ELSE IF y.inf THEN F64Zero(x.neg # y.neg)
    ELSE IF y.m = <<>> THEN (IF x.m = <<>> THEN F64NaN ELSE F64Inf(x.neg # y.neg))
    ELSE IF x.m = <<>> THEN F64Zero(x.neg # y.neg)
    ELSE F64DivFinite(x, y, Max2(0, BigBitLen(y.m) + 56 - BigBitLen(x.m)))

\* The root floor r of the mantissa m at exponent e, with the bit that says
\* whether m is above r * r.
F64Root(m, r, e) ==
    F64Round(FALSE, BigAddC(BigAdd(r, r), <<>>, IF BigMul(r, r) = m THEN 0 ELSE 1), e - 1)

\* The mantissa is shifted by k bits, to 110 bits or more at an even exponent.
F64SqrtFinite(x, k) ==
    F64Root(BigShl(x.m, k), BigSqrt(BigShl(x.m, k)), (x.e - k) \div 2)

\* np.sqrt(x): NaN of a negative number
F64Sqrt(x) ==
    IF x.nan THEN F64NaN
    ELSE IF ~ x.inf /\ x.m = <<>> THEN x
    ELSE IF x.neg THEN F64NaN
    ELSE IF x.inf THEN x
    ELSE F64SqrtFinite(x, Max2(0, 110 - BigBitLen(x.m))
                          + ((x.e - Max2(0, 110 - BigBitLen(x.m))) % 2))

\* x < y (false when either is NaN)
F64Less(x, y) ==
    /\ ~ x.nan /\ ~ y.nan
    /\ IF x.inf \/ y.inf
       THEN x # y /\ ((x.inf /\ x.neg) \/ (y.inf /\ ~ y.neg))
       ELSE F64Sub(x, y).neg /\ F64Sub(x, y).m # <<>>

\* The float64 of a value held in sixtieths: the float64 nearest to k / 60.
F64Sixtieths(k) == F64Div(F64FromInt(k), F64FromInt(60))

\* The float64 values of a column whose values are held in sixtieths.
F64Values(data) == [i \in 1..Len(data) |-> F64Sixtieths(data[i])]

RECURSIVE F64SumSeq(_, _)
\* res += a[i], in the order of the values
F64SumSeq(res, a) == IF a = <<>> THEN res ELSE F64SumSeq(F64Add(res, Head(a)), Tail(a))

RECURSIVE F64Lane(_, _, _)
\* r[j] of numpy's unrolled loop: a[j] + a[j + 8] + a[j + 16] + ... below stop
F64Lane(a, j, stop) ==
    IF stop <= 8 THEN a[j] ELSE F64Add(F64Lane(a, j, stop - 8), a[j + stop - 8])

\* numpy's sum of 8 to 128 values: eight partial sums, added in pairs, then
\* the values left over.
F64Block(a, stop) ==
    F64SumSeq(F64Add(F64Add(F64Add(F64Lane(a, 1, stop), F64Lane(a, 2, stop)),
                            F64Add(F64Lane(a, 3, stop), F64Lane(a, 4, stop))),
                     F64Add(F64Add(F64Lane(a, 5, stop), F64Lane(a, 6, stop)),
                            F64Add(F64Lane(a, 7, stop), F64Lane(a, 8, stop)))),
              SubSeq(a, stop + 1, Len(a)))

RECURSIVE F64PairwiseSum(_)
\* numpy's pairwise summation of a float64 array
F64PairwiseSum(a) ==
    IF Len(a) < 8 THEN F64SumSeq(F64Zero(FALSE), a)
    ELSE IF Len(a) <= 128 THEN F64Block(a, Len(a) - (Len(a) % 8))
    ELSE F64Add(F64PairwiseSum(SubSeq(a, 1, (Len(a) \div 2) - ((Len(a) \div 2) % 8))),
                F64PairwiseSum(SubSeq(a, (Len(a) \div 2) - ((Len(a) \div 2) % 8) + 1, Len(a))))

\* values.sum(): the reduction starts from 0.0
F64Sum(a) == F64Add(F64Zero(FALSE), F64PairwiseSum(a))

\* Series.mean(): the sum over the count
F64Mean(a) == F64Div(F64Sum(a), F64FromInt(Len(a)))

\* (avg - values) ** 2
F64SquaredDeviations(avg, a) ==
    [i \in 1..Len(a) |-> F64Mul(F64Sub(avg, a[i]), F64Sub(avg, a[i]))]

\* Series.var(): the sum of the squared deviations from the mean over
\* count - 1; NaN of fewer than two values
F64Var(a) ==
    IF Len(a) < 2 THEN F64NaN
    ELSE F64Div(F64Sum(F64SquaredDeviations(F64Mean(a), a)), F64FromInt(Len(a) - 1))

-----------------------------------------------------------------------------
(* modules/statistics.py: test_normality, compare_groups                   *)
(*                                                                         *)
(* A group is the sequence of the values of one metric in one source type, *)
(* held in sixtieths of a grade level: the value k stands for the float64  *)
(* nearest to k / 60.  The tests are scipy's; what a call of scipy does is *)
(* an input here: it raises, or it returns a statistic and a p-value.  A   *)
(* p-value is NaN or a whole number of thousandths.  The means and the     *)
(* effect sizes are computed from the groups, in float64 arithmetic.       *)

\* config.SIGNIFICANCE_LEVEL = 0.05, in thousandths.
SIGNIFICANCE_LEVEL == 50

\* A field that holds None or a float.
NoFloat == [null |-> TRUE, nan |-> FALSE, v |-> 0]
SomeFloat(f) == [null |-> FALSE, nan |-> f.nan, v |-> f.v]

\* A variant of ShapiroNormal that takes a p-value of 0.05 as normal.
ShapiroNormalInclusive(p_value) == ~ p_value.nan /\ p_value.v >= 50

\* p_value > 0.05 (false of NaN)
ShapiroNormal(p_value) == ~ p_value.nan /\ p_value.v > 50

\* The result for a sample of fewer than 3 values.
TooSmall ==
    [statistic |-> NoFloat, p_value |-> NoFloat, is_normal |-> FALSE,
     note |-> "Sample size too small for test"]

test_normality(data, shapiro) ==
    IF Len(data) < 3
    THEN TooSmall
    ELSE IF shapiro.raises
    THEN [statistic |-> NoFloat, p_value |-> NoFloat, is_normal |-> FALSE, note |-> "error"]
    ELSE [statistic |-> SomeFloat(shapiro.statistic), p_value |-> SomeFloat(shapiro.p_value),
          is_normal |-> ShapiroNormal(shapiro.p_value), note |-> "interpretation"]

\* A variant of BothNormal that is content with one normal group.
EitherNormal(norm1, norm2) == norm1.is_normal \/ norm2.is_normal

\* norm1['is_normal'] and norm2['is_normal']
BothNormal(norm1, norm2) == norm1.is_normal /\ norm2.is_normal

\* rank_biserial: 1 - (2 * U) / (n1 * n2)
rank_biserial(group1, group2, u_statistic) ==
    F64Sub(F64FromInt(1),
           F64Div(F64FromInt(2 * u_statistic), F64FromInt(Len(group1) * Len(group2))))

\* np.sqrt(((n1 - 1) * var1 + (n2 - 1) * var2) / (n1 + n2 - 2))
pooled_std(n1, var1, n2, var2) ==
    F64Sqrt(F64Div(F64Add(F64Mul(F64FromInt(n1 - 1), var1), F64Mul(F64FromInt(n2 - 1), var2)),
                   F64FromInt(n1 + n2 - 2)))

\* cohens_d(group1, group2): (group1.mean() - group2.mean()) / pooled_std.
\* The variance of a single value is NaN, and so is the quotient then; a
\* pooled_std of 0.0 gives an infinity, or NaN when the means are equal.
cohens_d(group1, group2) ==
    F64Div(F64Sub(F64Mean(F64Values(group1)), F64Mean(F64Values(group2))),
           pooled_std(Len(group1), F64Var(F64Values(group1)),
                      Len(group2), F64Var(F64Values(group2))))

\* {'error': str(e)}
CompareError ==
    [error |-> TRUE, test_used |-> "", statistic |-> 0, p_value |-> NaN,
     significant |-> FALSE, effect_size |-> F64NaN, group1_mean |-> F64NaN, group2_mean |-> F64NaN,
     direction |-> "", group1_normal |-> FALSE, group2_normal |-> FALSE]

\* mean1 < mean2, of mean1 = group1.mean() and mean2 = group2.mean()
MeanLess(group1, group2) ==
    F64Less(F64Mean(F64Values(group1)), F64Mean(F64Values(group2)))

\* compare_groups(group1, group2, metric_name), given what the Shapiro-Wilk
\* test of each group and the chosen test do.
\* A variant of Significant that takes a p-value equal to the level too.
SignificantInclusive(p_value) == ~ p_value.nan /\ p_value.v <= SIGNIFICANCE_LEVEL

\* p_value < SIGNIFICANCE_LEVEL (false of NaN)
Significant(p_value) == ~ p_value.nan /\ p_value.v < SIGNIFICANCE_LEVEL

compare_groups(group1, group2, o) ==
    LET norm1 == test_normality(group1, o.shapiro1)
        norm2 == test_normality(group2, o.shapiro2)
        t     == BothNormal(norm1, norm2)
    IN  IF o.test.raises
        THEN CompareError
        ELSE [error |-> FALSE,
              test_used |-> IF t THEN "Independent t-test" ELSE "Mann-Whitney U test",
              statistic |-> o.test.statistic,
              p_value |-> o.test.p_value,
              significant |-> Significant(o.test.p_value),
              effect_size |-> IF t THEN cohens_d(group1, group2)
                              ELSE rank_biserial(group1, group2, o.test.statistic),
              group1_mean |-> F64Mean(F64Values(group1)),
              group2_mean |-> F64Mean(F64Values(group2)),
              direction |-> IF MeanLess(group1, group2) THEN "Institutional < Private"
                            ELSE "Institutional > Private",
              group1_normal |-> norm1.is_normal,
              group2_normal |-> norm2.is_normal]

ShapiroOutcomes ==
    { [raises |-> TRUE, statistic |-> NaN, p_value |-> NaN] }
    \cup [raises : {FALSE}, statistic : {Float(1)},
          p_value : {NaN, Float(49), Float(50), Float(51)}]

TestOutcomes ==
    { [raises |-> TRUE, statistic |-> 0, p_value |-> NaN] }
    \cup [raises : {FALSE}, statistic : {2},
          p_value : {NaN, Float(49), Float(50), Float(51)}]

Oracles ==
    [shapiro1 : ShapiroOutcomes, shapiro2 : ShapiroOutcomes, test : TestOutcomes]

\* Non-empty groups of one to four values, below and from the size the
\* Shapiro-Wilk test needs: whole numbers (480 is 8.0), thirds (520 is
\* 26 / 3) and tenths (702 is 11.7).
Groups ==
    { <<520>>, <<480, 720>>, <<560, 480>>, <<480, 720, 600>>, <<720, 720, 720>>,
      <<702, 702, 702>>, <<702, 702, 702, 702>>, <<540, 660, 600, 840>> }

InitCompare ==
    /\ cmp \in [pc : {"ready"}, group1 : Groups, group2 : Groups, oracle : Oracles,
                norm1 : {TooSmall}, norm2 : {TooSmall}, result : {CompareError}]
    /\ cls = Idle /\ ext = Idle /\ scr = Idle /\ rd = Idle /\ run = Idle /\ ana = Idle /\ rea = Idle
    /\ amb = Idle /\ rty = Idle /\ srch = Idle /\ cln = Idle /\ vld = Idle

\* One call compare_groups(group1, group2, metric_name); norm1 and norm2 are
\* its two calls of test_normality.
Compare ==
    /\ cmp.pc = "ready"
    /\ cmp' = [cmp EXCEPT !.pc = "compared",
                          !.norm1 = test_normality(cmp.group1, cmp.oracle.shapiro1),
                          !.norm2 = test_normality(cmp.group2, cmp.oracle.shapiro2),
                          !.result = compare_groups(cmp.group1, cmp.group2, cmp.oracle)]
    /\ UNCHANGED <<cls, ext, scr, rd, run, ana, rea, amb, rty, srch, cln, vld>>

NextCompare == Compare

SpecCompare == InitCompare /\ [][NextCompare]_vars

-----------------------------------------------------------------------------
(* modules/statistics.py: perform_statistical_analysis                     *)
(*                                                                         *)
(* The dataset is the list of records.  A record carries the score keys    *)
(* once calculate_readability returned metrics for it (metrics.returned).  *)
(* The values of a column are held in sixtieths of a grade level, the unit *)
(* in which every mean of one to four whole scores, and every number of    *)
(* tenths, is a whole number; the float64 in the column is the one nearest *)
(* to that number (np.mean of whole scores, round(1), and the sheet's      *)
(* cells all give the nearest float64).                                    *)

Metrics == <<"GFI", "SMOG", "FKG", "ARI", "mean_readability">>

SourceTypes == <<"Institutional", "Private">>

\* df[metric] of one row: None/NaN, or the value.
MetricValue(r, metric) ==
    IF ~ r.metrics.returned THEN NullScore
    ELSE IF metric = "mean_readability"
    THEN (IF r.metrics.mean_readability.null THEN NullScore
          ELSE Score((r.metrics.mean_readability.sum * 60) \div r.metrics.mean_readability.n))
    ELSE (IF r.metrics[metric].null THEN NullScore ELSE Score(r.metrics[metric].v * 60))

\* metric in df.columns: some record carries the key.
InColumns(results, metric) == \E i \in 1..Len(results) : results[i].metrics.returned

RECURSIVE GroupData(_, _, _)
\* df[df['source_type'] == source_type][metric].dropna()
GroupData(results, source_type, metric) ==
    IF results = <<>> THEN <<>>
    ELSE (IF Head(results).source_type = source_type /\ ~ MetricValue(Head(results), metric).null
          THEN <<MetricValue(Head(results), metric).v>> ELSE <<>>)
         \o GroupData(Tail(results), source_type, metric)

RECURSIVE ColumnData(_, _)
\* df[metric].dropna()
ColumnData(results, metric) ==
    IF results = <<>> THEN <<>>
    ELSE (IF ~ MetricValue(Head(results), metric).null
          THEN <<MetricValue(Head(results), metric).v>> ELSE <<>>)
         \o ColumnData(Tail(results), metric)

\* calculate_descriptive_stats: the count and the mean.
calculate_descriptive_stats(data) == [n |-> Len(data), mean |-> F64Mean(F64Values(data))]

NoComparison == [present |-> FALSE, data1 |-> <<>>, data2 |-> <<>>, result |-> CompareError]

\* No statistics: run_stats is off, or the step has not run.
NoStats ==
    [ran |-> FALSE,
     overall |-> [k \in 1..Len(Metrics) |-> [present |-> FALSE, n |-> 0, mean |-> F64NaN]],
     comparisons |-> [k \in 1..Len(Metrics) |-> NoComparison]]

\* A variant of perform_statistical_analysis in which a comparison that fails
\* ends the loop over the metrics: the later metrics get no entry.
perform_statistical_analysis_stops(results, o) ==
    [ran |-> TRUE,
     overall |->
        [k \in 1..Len(Metrics) |->
            LET data == ColumnData(results, Metrics[k])
            IN  IF InColumns(results, Metrics[k]) /\ Len(data) > 0
                THEN [present |-> TRUE] @@ calculate_descriptive_stats(data)
                ELSE [present |-> FALSE, n |-> 0, mean |-> F64NaN]],
     comparisons |->
        [k \in 1..Len(Metrics) |->
            LET institutional == GroupData(results, "Institutional", Metrics[k])
                private       == GroupData(results, "Private", Metrics[k])
            IN  IF /\ results # <<>>
                   /\ InColumns(results, Metrics[k])
                   /\ Len(institutional) > 0 /\ Len(private) > 0
                   /\ \A j \in 1..(k - 1) :
                         ~ compare_groups(GroupData(results, "Institutional", Metrics[j]),
                                          GroupData(results, "Private", Metrics[j]), o[j]).error
                THEN [present |-> TRUE, data1 |-> institutional, data2 |-> private,
                      result |-> compare_groups(institutional, private, o[k])]
                ELSE NoComparison]]

\* perform_statistical_analysis(df), given what scipy does for each metric.
\* The entry of a metric keeps the two samples handed to compare_groups.
perform_statistical_analysis(results, o) ==
    [ran |-> TRUE,
     overall |->
        [k \in 1..Len(Metrics) |->
            LET data == ColumnData(results, Metrics[k])
            IN  IF InColumns(results, Metrics[k]) /\ Len(data) > 0
                THEN [present |-> TRUE] @@ calculate_descriptive_stats(data)
                ELSE [present |-> FALSE, n |-> 0, mean |-> F64NaN]],
     comparisons |->
        [k \in 1..Len(Metrics) |->
            LET institutional == GroupData(results, "Institutional", Metrics[k])
                private       == GroupData(results, "Private", Metrics[k])
            IN  IF /\ results # <<>>
                   /\ InColumns(results, Metrics[k])
                   /\ Len(institutional) > 0 /\ Len(private) > 0
                THEN [present |-> TRUE, data1 |-> institutional, data2 |-> private,
                      result |-> compare_groups(institutional, private, o[k])]
                ELSE NoComparison]]

-----------------------------------------------------------------------------
(* modules/search_serpapi.py: search_google_serpapi                        *)
(*                                                                         *)
(* The provider's answer to one page request is one of: the request or the *)
(* decoding raises ("exception"); a status other than 200 ("http_error");  *)
(* a payload with the key error ("error_payload"); a payload without       *)
(* organic_results ("no_organic"); a payload with organic_results          *)
(* ("organic"), whose items are dictionaries, or whose items after the     *)
(* first bad entries are not ("bad_item": the exception is raised when     *)
(* that item is reached).                                                  *)

\* while ... and page < 10
MAX_PAGES == 10

Response(kind, items) == [kind |-> kind, items |-> items]

\* A variant of NextRank that numbers a result by its place on its page.
RankByPlace(results, page, slot) == page * 10 + slot

\* 'rank': len(results) + 1, for the item at a slot of a page.
NextRank(results, page, slot) == Len(results) + 1

RECURSIVE AppendItems(_, _, _, _)
\* for item in data['organic_results']: results.append({...}), from slot on.
AppendItems(results, items, page, slot) ==
    IF slot > Len(items) THEN results
    ELSE AppendItems(Append(results,
                            [url |-> items[slot].link, title |-> items[slot].title,
                             snippet |-> items[slot].snippet,
                             rank |-> NextRank(results, page, slot)]),
                     items, page, slot + 1)

\* A variant of SearchIteration whose exception handler tries the same page
\* again.
SearchIterationSamePage(s, response) ==
    CASE response.kind \in {"http_error", "error_payload"} -> [s EXCEPT !.broke = TRUE]
      [] response.kind = "no_organic" -> [s EXCEPT !.page = @ + 1]
      [] response.kind = "organic" ->
            [s EXCEPT !.results = AppendItems(s.results, response.items, s.page, 1),
                      !.broke = (response.items = <<>>),
                      !.page = IF response.items = <<>> THEN @ ELSE @ + 1]
      [] response.kind = "bad_item" ->
            [s EXCEPT !.results = AppendItems(s.results, response.items, s.page, 1)]
      [] OTHER -> s

\* One turn of the while loop, given the provider's answer: the results, the
\* page and whether the loop was left by break.
SearchIteration(s, response) ==
    CASE response.kind \in {"http_error", "error_payload"} -> [s EXCEPT !.broke = TRUE]
      [] response.kind = "no_organic" -> [s EXCEPT !.page = @ + 1]
      [] response.kind = "organic" ->
            [s EXCEPT !.results = AppendItems(s.results, response.items, s.page, 1),
                      !.broke = (response.items = <<>>),
                      !.page = IF response.items = <<>> THEN @ ELSE @ + 1]
      [] response.kind = "bad_item" ->
            [s EXCEPT !.results = AppendItems(s.results, response.items, s.page, 1),
                      !.page = @ + 1]
      [] OTHER -> [s EXCEPT !.page = @ + 1]

\* len(results) < num_results and page < 10, and no break
SearchGoesOn(s, num_results) ==
    ~ s.broke /\ Len(s.results) < num_results /\ s.page < MAX_PAGES

RECURSIVE SearchLoop(_, _, _)
\* The while loop, the provider answering the requests with the responses
\* in turn, and with an empty page once they are used up.
SearchLoop(s, responses, num_results) ==
    IF ~ SearchGoesOn(s, num_results) THEN s.results
    ELSE IF responses = <<>>
    THEN SearchLoop(SearchIteration(s, Response("organic", <<>>)), <<>>, num_results)
    ELSE SearchLoop(SearchIteration(s, Head(responses)), Tail(responses), num_results)

\* search_google_serpapi(keyword, api_key, num_results), given the provider's
\* responses.
search_google_serpapi(responses, num_results) ==
    SearchLoop([results |-> <<>>, page |-> 0, broke |-> FALSE], responses, num_results)

\* Items of a page: a full item, and one without link and snippet.
ItemA == [link |-> "https://cdc.gov/x", title |-> "CDC", snippet |-> "s"]
ItemB == [link |-> "", title |-> "Health", snippet |-> ""]

SearchResponses ==
    { Response("exception", <<>>), Response("http_error", <<>>),
      Response("error_payload", <<>>), Response("no_organic", <<>>),
      Response("organic", <<>>), Response("organic", <<ItemA>>),
      Response("organic", <<ItemA, ItemA, ItemB>>), Response("bad_item", <<ItemA>>) }

\* The numbers of results asked for.
NumResults == {0, 2, 100}

\* The most page requests a search is followed for.
MaxRequests == 12

InitSearch ==
    /\ srch \in [pc : {"loop"}, num_results : NumResults,
                 s : {[results |-> <<>>, page |-> 0, broke |-> FALSE]},
                 requests : {0}, returned : {<<>>}]
    /\ cls = Idle /\ ext = Idle /\ scr = Idle /\ rd = Idle /\ cmp = Idle /\ run = Idle
    /\ ana = Idle /\ rea = Idle /\ amb = Idle /\ rty = Idle /\ cln = Idle /\ vld = Idle

\* One turn of the while loop: one page request and what follows from the
\* provider's answer.
FetchPage ==
    /\ srch.pc = "loop" /\ SearchGoesOn(srch.s, srch.num_results)
    /\ srch.requests < MaxRequests
    /\ \E response \in SearchResponses :
          srch' = [srch EXCEPT !.s = SearchIteration(srch.s, response),
                               !.requests = @ + 1]
    /\ UNCHANGED <<cls, ext, scr, rd, cmp, run, ana, rea, amb, rty, cln, vld>>

\* The loop is over: return results.
ReturnResults ==
    /\ srch.pc = "loop" /\ ~ SearchGoesOn(srch.s, srch.num_results)
    /\ srch' = [srch EXCEPT !.pc = "returned", !.returned = srch.s.results]
    /\ UNCHANGED <<cls, ext, scr, rd, cmp, run, ana, rea, amb, rty, cln, vld>>

NextSearch == FetchPage \/ ReturnResults

SpecSearch == InitSearch /\ [][NextSearch]_vars

-----------------------------------------------------------------------------
(* app.py: run_full_analysis                                               *)
(*                                                                         *)
(* run.urls is the list of the search results (the dictionaries the steps  *)
(* update in place), run.appended the length of the list results, which    *)
(* holds the first run.appended of them, run.i the index the current loop  *)
(* is at.                                                                  *)

\* The longest result list of the search.
MaxDocs == 4

SearchHits ==
    << [url |-> "https://cdc.gov/x", title |-> "CDC"],
       [url |-> "http://a.com/a", title |-> "Health"],
       [url |-> "http://b.org/college", title |-> None],
       [url |-> "http://[a/b.gov", title |-> "Gov"],
       [url |-> "https://nih.gov/b", title |-> "NIH"],
       [url |-> "http://c.net", title |-> ""] >>

\* The dictionary of the k-th search result, with the keys the later steps
\* add ("" or None until then).
UrlData(k) ==
    [url |-> SearchHits[k].url, title |-> SearchHits[k].title, snippet |-> "", rank |-> k,
     domain |-> "", content |-> Nothing, word_count |-> 0, status |-> "", error_msg |-> None,
     source_type |-> "", classification_confidence |-> 0, metrics |-> NoMetrics]

\* The item of the provider's payload for the k-th search hit.
HitItem(k) == [link |-> SearchHits[k].url, title |-> SearchHits[k].title, snippet |-> ""]

\* A provider with n hits: its first request raises, the first hit comes
\* alone on a page, a payload without organic_results follows, then the other
\* hits on one page, then an HTTP error.
ProviderResponses(n) ==
    IF n = 0 THEN << Response("exception", <<>>), Response("organic", <<>>) >>
    ELSE << Response("exception", <<>>), Response("organic", <<HitItem(1)>>),
            Response("no_organic", <<>>) >>
         \o (IF n >= 2 THEN << Response("organic", [k \in 1..(n - 1) |-> HitItem(k + 1)]) >>
             ELSE <<>>)
         \o << Response("http_error", <<>>) >>

\* The list results.
Results(r) == SubSeq(r.urls, 1, r.appended)

InitBatch ==
    /\ run \in [pc : {"search"}, urls : {<<>>}, appended : {0}, i : {1}, stats : {NoStats},
                figures : {FALSE}, stored : {FALSE}, dataset : {<<>>}, failed_at : {""}]
    /\ cls = Idle /\ ext = Idle /\ scr = Idle /\ rd = Idle /\ cmp = Idle /\ ana = Idle /\ rea = Idle
    /\ amb = Idle /\ rty = Idle /\ srch = Idle /\ cln = Idle /\ vld = Idle

\* Step 1: the search returns its list of results, ranked in order.
Search ==
    /\ run.pc = "search"
    /\ \E n \in 0..MaxDocs :
          LET found == search_google_serpapi(ProviderResponses(n), MaxDocs)
          IN  run' = [run EXCEPT
                        !.pc = "domains",
                        !.urls = [k \in 1..Len(found) |->
                                     [UrlData(k) EXCEPT !.url = found[k].url,
                                                        !.title = found[k].title,
                                                        !.snippet = found[k].snippet,
                                                        !.rank = found[k].rank]]]
    /\ UNCHANGED <<cls, ext, scr, rd, cmp, ana, rea, amb, rty, srch, cln, vld>>

\* parsed.netloc without a leading www. (app.py:317-320)
NetlocDomain(parsed) == WithoutWww(parsed.netloc)

\* The list after the loop of step 2 has set the domain of its first n
\* results.
WithDomains(urls, n) ==
    [k \in 1..Len(urls) |->
        IF k <= n THEN [urls[k] EXCEPT !.domain = NetlocDomain(urlparse(urls[k].url))]
        ELSE urls[k]]

RECURSIVE FirstRejected(_, _)
\* The place, from k on, of the first result whose url makes urlparse
\* raise, Len(urls) + 1 when there is none.
FirstRejected(urls, k) ==
    IF k > Len(urls) \/ urlparse(urls[k].url).raises THEN k ELSE FirstRejected(urls, k + 1)

\* The state after step 2, whose loop stops at the result at place stop.
AfterDomains(r, stop) ==
    IF stop > Len(r.urls)
    THEN [r EXCEPT !.pc = IF r.urls = <<>> THEN "stats" ELSE "scrape", !.i = 1,
                   !.urls = WithDomains(r.urls, Len(r.urls))]
    ELSE [r EXCEPT !.pc = "failed", !.failed_at = "domains",
                   !.urls = WithDomains(r.urls, stop - 1)]

\* Step 2: the domain of every result, by urlparse called in the loop.  An
\* exception of urlparse ends the analysis in the handler of
\* run_full_analysis.
ExtractDomains ==
    /\ run.pc = "domains"
    /\ run' = AfterDomains(run, FirstRejected(run.urls, 1))
    /\ UNCHANGED <<cls, ext, scr, rd, cmp, ana, rea, amb, rty, srch, cln, vld>>

\* A page within the two length gates and a page above the maximum.
BatchTexts == { Words("A", MIN_WORD_COUNT + 1), Words("M", MAX_WORD_COUNT + 1) }

BatchFetches ==
    { f \in Fetches({ BodyDoc(t) : t \in BatchTexts } \cup { <<>> }) : f.code # "500" }

\* Step 3, one turn of the loop: scrape the page, update the result with
\* what the scrape returned and append it to results.  An exception leaving
\* scrape_webpage ends the analysis in the handler of run_full_analysis.
ScrapeNext ==
    /\ run.pc = "scrape" /\ run.i <= Len(run.urls)
    /\ \E fetch \in BatchFetches :
          \E scraped \in { scrape_webpage(run.urls[run.i].url, fetch) } :
              IF scraped.status = Uncaught
              THEN run' = [run EXCEPT !.pc = "failed", !.failed_at = "scrape"]
              ELSE run' = [run EXCEPT
                             !.urls[run.i] = [@ EXCEPT !.url = scraped.url,
                                                       !.content = scraped.content,
                                                       !.word_count = scraped.word_count,
                                                       !.status = scraped.status,
                                                       !.error_msg = scraped.error_msg],
                             !.appended = run.i,
                             !.i = IF run.i = Len(run.urls) THEN 1 ELSE run.i + 1,
                             !.pc = IF run.i = Len(run.urls) THEN "classify" ELSE "scrape"]
    /\ UNCHANGED <<cls, ext, scr, rd, cmp, ana, rea, amb, rty, srch, cln, vld>>

\* Step 4, one turn of the loop: classify the source of the result.
ClassifyNext ==
    /\ run.pc = "classify" /\ run.i <= run.appended
    /\ LET result == run.urls[run.i]
           c == classify_source(result.url, result.title, result.domain)
       IN  run' = [run EXCEPT
                     !.urls[run.i] = [@ EXCEPT !.source_type = c.classification,
                                               !.classification_confidence = c.confidence],
                     !.i = IF run.i = run.appended THEN 1 ELSE run.i + 1,
                     !.pc = IF run.i = run.appended THEN "score" ELSE "classify"]
    /\ UNCHANGED <<cls, ext, scr, rd, cmp, ana, rea, amb, rty, srch, cln, vld>>

\* A variant of ScoreGuard that scores every result that carries text.
ScoreGuardAnyStatus(result) == result.content.ok /\ result.content.text # <<>>

\* result.get('content') and result.get('status') == 'success'
ScoreGuard(result) ==
    /\ result.content.ok /\ result.content.text # <<>>
    /\ result.status = "success"

BatchLibOutcomes ==
    { LibRaises,
      [raises |-> FALSE, GFI |-> Float(12), SMOG |-> Float(12), FKG |-> Float(12),
       ARI |-> Float(12), sentence_count |-> 3, syllable_count |-> 75],
      [raises |-> FALSE, GFI |-> Float(31), SMOG |-> Float(31), FKG |-> Float(31),
       ARI |-> Float(31), sentence_count |-> 3, syllable_count |-> 75],
      [raises |-> FALSE, GFI |-> NaN, SMOG |-> Float(10), FKG |-> Float(31),
       ARI |-> Float(30), sentence_count |-> 3, syllable_count |-> 75] }

\* Step 5, one turn of the loop: score the text of a successful result and
\* update the result with the metrics, when there are any.
ScoreNext ==
    /\ run.pc = "score" /\ run.i <= run.appended
    /\ \E lib \in BatchLibOutcomes :
          \E metrics \in { IF ScoreGuard(run.urls[run.i])
                           THEN calculate_readability(run.urls[run.i].content.text, lib)
                           ELSE NoMetrics } :
              run' = [run EXCEPT
                        !.urls[run.i] =
                            IF metrics.returned
                            THEN [@ EXCEPT !.metrics = metrics,
                                           !.word_count = metrics.word_count]
                            ELSE @,
                        !.i = IF run.i = run.appended THEN 1 ELSE run.i + 1,
                        !.pc = IF run.i = run.appended THEN "stats" ELSE "score"]
    /\ UNCHANGED <<cls, ext, scr, rd, cmp, ana, rea, amb, rty, srch, cln, vld>>

\* What scipy does for the five metrics: every test succeeds, every test
\* raises, or the test of the first metric alone raises.
BatchOracles ==
    LET good == [shapiro1 |-> [raises |-> FALSE, statistic |-> Float(1), p_value |-> Float(51)],
                 shapiro2 |-> [raises |-> FALSE, statistic |-> Float(1), p_value |-> Float(51)],
                 test     |-> [raises |-> FALSE, statistic |-> 2, p_value |-> Float(49)]]
        bad  == [good EXCEPT !.test = [raises |-> TRUE, statistic |-> 0, p_value |-> NaN]]
    IN  { [k \in 1..Len(Metrics) |-> good],
          [k \in 1..Len(Metrics) |-> bad],
          [k \in 1..Len(Metrics) |-> IF k = 1 THEN bad ELSE good] }

\* Step 6: the statistics of the dataset, when they are asked for (run_stats).
Statistics ==
    /\ run.pc = "stats"
    /\ \E o \in BatchOracles, run_stats \in BOOLEAN :
          run' = [run EXCEPT
                    !.pc = "figures",
                    !.stats = IF run_stats
                              THEN perform_statistical_analysis(Results(run), o)
                              ELSE NoStats]
    /\ UNCHANGED <<cls, ext, scr, rd, cmp, ana, rea, amb, rty, srch, cln, vld>>

\* Step 7: the figures, when they are asked for (generate_figs).  An
\* exception leaving create_all_visualizations (savefig cannot write the
\* file, as with a search term that holds a '/') ends the analysis in the
\* handler.
Visualize ==
    /\ run.pc = "figures"
    /\ \E generate_figs \in BOOLEAN, raises \in BOOLEAN :
          /\ raises => generate_figs
          /\ run' = IF raises
                    THEN [run EXCEPT !.pc = "failed", !.failed_at = "figures"]
                    ELSE [run EXCEPT !.pc = "export", !.figures = generate_figs]
    /\ UNCHANGED <<cls, ext, scr, rd, cmp, ana, rea, amb, rty, srch, cln, vld>>

\* Step 8: the export of the dataset and the stored session results.  An
\* exception leaving export_to_excel ends the analysis in the handler.
Export ==
    /\ run.pc = "export"
    /\ \E raises \in BOOLEAN :
          IF raises
          THEN run' = [run EXCEPT !.pc = "failed", !.failed_at = "export"]
          ELSE run' = [run EXCEPT !.pc = "done", !.stored = TRUE, !.dataset = Results(run)]
    /\ UNCHANGED <<cls, ext, scr, rd, cmp, ana, rea, amb, rty, srch, cln, vld>>

NextBatch ==
    \/ Search
    \/ ExtractDomains
    \/ ScrapeNext
    \/ ClassifyNext
    \/ ScoreNext
    \/ Statistics
    \/ Visualize
    \/ Export

SpecBatch == InitBatch /\ [][NextBatch]_vars

-----------------------------------------------------------------------------
(* modules/statistics.py: one call of perform_statistical_analysis         *)

\* The metrics calculate_readability returns for library scores g, s, f, a.
RowMetrics(g, s, f, a) ==
    calculate_readability(Words("A", MIN_WORD_COUNT + 1),
        [raises |-> FALSE, GFI |-> g, SMOG |-> s, FKG |-> f, ARI |-> a,
         sentence_count |-> 3, syllable_count |-> 75])

\* The k-th record of a dataset: a classified result with its metrics
\* (NoMetrics when it was not scored).
Row(k, source_type, status, metrics) ==
    [UrlData(1) EXCEPT !.rank = k, !.domain = NetlocDomain(urlparse(UrlData(1).url)),
                       !.source_type = source_type, !.status = status,
                       !.metrics = metrics, !.word_count = metrics.word_count]

\* The k-th record of a dataset for a search result without a link: no
\* domain, and a request that failed.
RowWithoutLink(k) ==
    [Row(k, "Private", "request_error", NoMetrics) EXCEPT
        !.url = "", !.title = "Health", !.domain = ""]

\* Datasets: three scored records of each source type and a record without
\* a link; one and two; one source type only, with a record that was not
\* scored and a null score; one and two whose mean_readability values are
\* thirds, with the same mean 26 / 3 in both source types.
AnalyseDatasets ==
    { << Row(1, "Institutional", "success", RowMetrics(Float(8), Float(9), Float(7), Float(8))),
         Row(2, "Private", "success", RowMetrics(Float(12), Float(13), Float(11), Float(12))),
         Row(3, "Institutional", "success", RowMetrics(Float(10), Float(10), Float(9), Float(11))),
         Row(4, "Private", "success", RowMetrics(Float(14), Float(12), Float(12), Float(13))),
         Row(5, "Institutional", "success", RowMetrics(Float(9), Float(11), Float(8), Float(9))),
         Row(6, "Private", "success", RowMetrics(Float(13), Float(31), Float(10), Float(12))),
         RowWithoutLink(7) >>,
      << Row(1, "Institutional", "success", RowMetrics(Float(8), Float(9), Float(7), Float(8))),
         Row(2, "Private", "success", RowMetrics(Float(12), NaN, Float(11), Float(12))),
         Row(3, "Private", "success", RowMetrics(Float(8), Float(9), Float(7), Float(8))) >>,
      << Row(1, "Private", "success", RowMetrics(Float(8), Float(9), Float(7), Float(8))),
         Row(2, "Private", "timeout", NoMetrics),
         Row(3, "Institutional", "insufficient_text", NoMetrics) >>,
      << Row(1, "Institutional", "success", RowMetrics(Float(9), Float(9), Float(8), Float(31))),
         Row(2, "Private", "success", RowMetrics(Float(9), Float(9), Float(10), Float(31))),
         Row(3, "Private", "success", RowMetrics(Float(8), Float(8), Float(8), Float(8))) >> }

\* What scipy does for one metric: both groups normal and the t-test
\* succeeds; a group not normal and the Mann-Whitney U test succeeds; the test
\* raises; the Shapiro-Wilk test of the first group raises.
AnalyseOracle ==
    LET normal == [shapiro1 |-> [raises |-> FALSE, statistic |-> Float(1), p_value |-> Float(51)],
                   shapiro2 |-> [raises |-> FALSE, statistic |-> Float(1), p_value |-> Float(51)],
                   test     |-> [raises |-> FALSE, statistic |-> 2, p_value |-> Float(49)]]
    IN  { normal,
          [normal EXCEPT !.shapiro2.p_value = Float(50)],
          [normal EXCEPT !.test = [raises |-> TRUE, statistic |-> 0, p_value |-> NaN]],
          [normal EXCEPT !.shapiro1 = [raises |-> TRUE, statistic |-> NaN, p_value |-> NaN]] }

InitAnalyse ==
    /\ ana \in [pc : {"ready"}, df : AnalyseDatasets,
                oracle : [1..Len(Metrics) -> AnalyseOracle], stats : {NoStats}]
    /\ cls = Idle /\ ext = Idle /\ scr = Idle /\ rd = Idle /\ cmp = Idle /\ run = Idle
    /\ rea = Idle
    /\ amb = Idle /\ rty = Idle /\ srch = Idle /\ cln = Idle /\ vld = Idle

\* One call perform_statistical_analysis(df).
Analyse ==
    /\ ana.pc = "ready"
    /\ ana' = [ana EXCEPT !.pc = "analysed",
                          !.stats = perform_statistical_analysis(ana.df, ana.oracle)]
    /\ UNCHANGED <<cls, ext, scr, rd, cmp, run, rea, amb, rty, srch, cln, vld>>

NextAnalyse == Analyse

SpecAnalyse == InitAnalyse /\ [][NextAnalyse]_vars

-----------------------------------------------------------------------------
(* modules/data_manager.py, modules/data_validator.py,                     *)
(* modules/reanalysis_pipeline.py: export of a dataset to the sheet        *)
(* Readability_Data and its re-analysis.                                   *)
(*                                                                         *)
(* A sheet, and the DataFrame read from it, is a set of column names and   *)
(* a list of rows. A row keeps the shape of a result record: under a       *)
(* column the sheet does not have, the field holds its empty value; a      *)
(* score cell is a number or empty (NaN); the cell of a text column (url,  *)
(* domain, source_type, status) is a string, and in a DataFrame None when  *)
(* the cell was read as NaN.                                               *)

\* create_data_sheet: the columns the sheet takes from the DataFrame.
base_cols == {"rank", "url", "domain", "source_type", "classification_confidence",
              "word_count", "status"}

\* The keys that result.update(metrics) adds to a record.
metric_cols == {"GFI", "SMOG", "FKG", "ARI", "mean_readability", "sentence_count"}

\* numpy's round(sum / n, 1) in tenths: the nearest tenth, a tie going to
\* the even one.
Round1(sum, n) ==
    LET q == (10 * sum) \div n
        r == (10 * sum) % n
    IN  IF 2 * r < n THEN q
        ELSE IF 2 * r > n THEN q + 1
        ELSE IF q % 2 = 0 THEN q ELSE q + 1

\* df[col].round(1) of a score cell: a whole number of grade levels has one
\* decimal already.
RoundScore(s) == IF s.null THEN NullScore ELSE Score(Round1(s.v, 1) \div 10)

\* df['mean_readability'].round(1): the mean in tenths.
RoundMean(m) == IF m.null THEN NullMean ELSE Mean(Round1(m.sum, m.n), 10)

\* The row of the sheet for one record; scored says whether the DataFrame
\* has the score columns.
SheetRow(r, scored) ==
    [r EXCEPT !.title = "", !.snippet = "", !.content = Nothing, !.error_msg = None,
              !.metrics =
                  IF scored
                  THEN [r.metrics EXCEPT !.returned = TRUE,
                                         !.GFI = RoundScore(r.metrics.GFI),
                                         !.SMOG = RoundScore(r.metrics.SMOG),
                                         !.FKG = RoundScore(r.metrics.FKG),
                                         !.ARI = RoundScore(r.metrics.ARI),
                                         !.syllable_count = 0,
                                         !.mean_readability = RoundMean(r.metrics.mean_readability)]
                  ELSE NoMetrics]

\* create_data_sheet(writer, results): the sheet Readability_Data.
create_data_sheet(results) ==
    LET scored == \E i \in 1..Len(results) : results[i].metrics.returned
    IN  [columns |-> IF results = <<>> THEN {}
                     ELSE base_cols \cup (IF scored THEN metric_cols ELSE {}),
         rows    |-> [i \in 1..Len(results) |-> SheetRow(results[i], scored)]]

\* export_to_excel writes an .xlsx workbook that holds the sheet.
export_to_excel(results) ==
    [xlsx |-> TRUE, readable |-> TRUE, has_sheet |-> TRUE, sheet |-> create_data_sheet(results)]

required_columns == {"rank", "url", "domain", "source_type", "GFI", "SMOG", "FKG", "ARI"}

valid_source_types == {"Institutional", "Private", None}

score_columns == <<"GFI", "SMOG", "FKG", "ARI">>

NoDataFrame == [columns |-> {}, rows |-> <<>>]

Invalid(message) == [is_valid |-> FALSE, message |-> message, has_df |-> FALSE, df |-> NoDataFrame]

\* df[score_columns].dropna(how='all'): the rows with a score.
RowsWithScores(df) ==
    {i \in 1..Len(df.rows) : \E k \in 1..Len(score_columns) : ~ df.rows[i].metrics[score_columns[k]].null}

\* The texts pd.read_excel reads as NaN, as it does the empty cell (pandas'
\* default na_values).
NaValues ==
    {None, "", "#N/A", "#N/A N/A", "#NA", "-1.#IND", "-1.#QNAN", "-NaN", "-nan", "1.#IND",
     "1.#QNAN", "<NA>", "N/A", "NA", "NULL", "NaN", "n/a", "nan", "null"}

\* What pd.read_excel returns for the cell of a text column.
ReadCell(cell) == IF cell \in NaValues THEN None ELSE cell

\* pd.read_excel(file_path, sheet_name='Readability_Data'): the DataFrame of
\* the sheet.
read_excel(sheet) ==
    [columns |-> sheet.columns,
     rows |-> [i \in 1..Len(sheet.rows) |->
                 [sheet.rows[i] EXCEPT !.url = ReadCell(@), !.domain = ReadCell(@),
                                       !.source_type = ReadCell(@), !.status = ReadCell(@)]]]

\* A variant of validate_uploaded_file without the check of the score range.
validate_uploaded_file_any_score(file) ==
    LET df == read_excel(file.sheet)
    IN  IF ~ file.xlsx THEN Invalid("File must be an Excel file")
        ELSE IF ~ file.readable THEN Invalid("Cannot read Excel file")
        ELSE IF ~ file.has_sheet THEN Invalid("Missing required sheet")
        ELSE IF df.rows = <<>> \/ df.columns = {} THEN Invalid("Uploaded file contains no data")
        ELSE IF ~ (required_columns \subseteq df.columns) THEN Invalid("Missing required columns")
        ELSE IF \E i \in 1..Len(df.rows) : df.rows[i].source_type \notin valid_source_types
             THEN Invalid("Invalid source_type values")
        ELSE IF Cardinality(RowsWithScores(df)) < 3 THEN Invalid("Insufficient data")
        ELSE IF \A i \in 1..Len(df.rows) : df.rows[i].url = None THEN Invalid("No valid URLs")
        ELSE IF \A i \in 1..Len(df.rows) : df.rows[i].source_type = None
             THEN Invalid("No source type classifications")
        ELSE [is_valid |-> TRUE, message |-> "Valid", has_df |-> TRUE, df |-> df]

\* validate_uploaded_file(file_path): (is_valid, message, dataframe).
validate_uploaded_file(file) ==
    LET df == read_excel(file.sheet)
    IN  IF ~ file.xlsx THEN Invalid("File must be an Excel file")
        ELSE IF ~ file.readable THEN Invalid("Cannot read Excel file")
        ELSE IF ~ file.has_sheet THEN Invalid("Missing required sheet")
        ELSE IF df.rows = <<>> \/ df.columns = {} THEN Invalid("Uploaded file contains no data")
        ELSE IF ~ (required_columns \subseteq df.columns) THEN Invalid("Missing required columns")
        ELSE IF \E i \in 1..Len(df.rows) : df.rows[i].source_type \notin valid_source_types
             THEN Invalid("Invalid source_type values")
        ELSE IF \E i \in 1..Len(df.rows) : \E k \in 1..Len(score_columns) :
                    LET s == df.rows[i].metrics[score_columns[k]]
                    IN  ~ s.null /\ (s.v < 0 \/ s.v > 30)
             THEN Invalid("Invalid scores")
        ELSE IF Cardinality(RowsWithScores(df)) < 3 THEN Invalid("Insufficient data")
        ELSE IF \A i \in 1..Len(df.rows) : df.rows[i].url = None THEN Invalid("No valid URLs")
        ELSE IF \A i \in 1..Len(df.rows) : df.rows[i].source_type = None
             THEN Invalid("No source type classifications")
        ELSE [is_valid |-> TRUE, message |-> "Valid", has_df |-> TRUE, df |-> df]

\* df[score_cols].mean(axis=1, skipna=True) of one row.
RowMean(metrics) ==
    IF CountValid(metrics, score_columns) > 0
    THEN Mean(SumValid(metrics, score_columns), CountValid(metrics, score_columns))
    ELSE NullMean

\* str(value) of a cell of a text column: an empty cell becomes 'nan'.
AsStr(cell) == IF cell = None THEN "nan" ELSE cell

\* prepare_dataframe_for_analysis(df): mean_readability is computed when the
\* column is missing; the numeric columns hold numbers or NaN already; the
\* text columns are turned into strings.
prepare_dataframe_for_analysis(df) ==
    [columns |-> df.columns \cup {"mean_readability"},
     rows |-> [i \in 1..Len(df.rows) |->
                 [df.rows[i] EXCEPT
                     !.metrics.mean_readability =
                         IF "mean_readability" \notin df.columns
                         THEN RowMean(df.rows[i].metrics) ELSE @,
                     !.url = AsStr(@), !.domain = AsStr(@), !.source_type = AsStr(@)]]]

\* A variant of the export step of run_reanalysis_pipeline that logs the
\* failure and goes on.
ExportFailureAbsorbed(raises) == "returned"

\* The export step of run_reanalysis_pipeline: an exception is raised again,
\* through the outer handler, to the caller.
ExportFailure(raises) == IF raises THEN "raised" ELSE "returned"

-----------------------------------------------------------------------------
(* A dataset is analysed and exported, the user may edit a score of the    *)
(* sheet, and the sheet is uploaded for re-analysis: validate_uploaded_file,*)
(* prepare_dataframe_for_analysis, then the three steps of                 *)
(* run_reanalysis_pipeline.                                                *)

\* What scipy does in a run: the same for every metric.
ReanalysisOracles == {[k \in 1..Len(Metrics) |-> o] : o \in AnalyseOracle}

\* The values a user types into a score cell.
EditValues == {Score(5), Score(30), Score(31), NullScore}

InitReanalysis ==
    /\ rea \in [pc : {"results"}, results : AnalyseDatasets, oracle : ReanalysisOracles,
                stats0 : {NoStats}, file : {export_to_excel(<<>>)}, edited : {FALSE},
                validation : {Invalid("")}, df : {NoDataFrame}, stats : {NoStats},
                stats_failed : {FALSE}, figures : {FALSE}, figures_failed : {FALSE},
                excel_path : {None}, steps : {<<>>}, temp_exists : {FALSE},
                session : {"none"}]
    /\ cls = Idle /\ ext = Idle /\ scr = Idle /\ rd = Idle /\ cmp = Idle /\ run = Idle
    /\ ana = Idle
    /\ amb = Idle /\ rty = Idle /\ srch = Idle /\ cln = Idle /\ vld = Idle

\* The original run: its statistics, and export_to_excel of its results;
\* the session keeps the results of the run.
ExportResults ==
    /\ rea.pc = "results"
    /\ rea' = [rea EXCEPT !.pc = "exported",
                          !.stats0 = perform_statistical_analysis(rea.results, rea.oracle),
                          !.file = export_to_excel(rea.results),
                          !.session = "full_analysis"]
    /\ UNCHANGED <<cls, ext, scr, rd, cmp, run, ana, amb, rty, srch, cln, vld>>

\* The user edits one score cell of the sheet.
EditScore ==
    /\ rea.pc = "exported" /\ ~ rea.edited
    /\ \E i \in 1..Len(rea.file.sheet.rows), k \in 1..Len(score_columns), v \in EditValues :
          /\ "GFI" \in rea.file.sheet.columns
          /\ rea.file.sheet.rows[i].metrics[score_columns[k]] # v
          /\ rea' = [rea EXCEPT !.edited = TRUE,
                                !.file.sheet.rows[i].metrics[score_columns[k]] = v]
    /\ UNCHANGED <<cls, ext, scr, rd, cmp, run, ana, amb, rty, srch, cln, vld>>

\* The values a user types into a source_type cell.
EditSourceTypes == {"Institutional", "Private", None, "institutional", "Government"}

\* The user edits one source_type cell of the sheet.
EditSourceType ==
    /\ rea.pc = "exported" /\ ~ rea.edited
    /\ \E i \in 1..Len(rea.file.sheet.rows), v \in EditSourceTypes :
          /\ rea.file.sheet.rows[i].source_type # v
          /\ rea' = [rea EXCEPT !.edited = TRUE, !.file.sheet.rows[i].source_type = v]
    /\ UNCHANGED <<cls, ext, scr, rd, cmp, run, ana, amb, rty, srch, cln, vld>>

\* The user deletes one of the required columns of the sheet.
DeleteColumn ==
    /\ rea.pc = "exported" /\ ~ rea.edited
    /\ \E c \in required_columns \cap rea.file.sheet.columns :
          rea' = [rea EXCEPT !.edited = TRUE, !.file.sheet.columns = @ \ {c}]
    /\ UNCHANGED <<cls, ext, scr, rd, cmp, run, ana, amb, rty, srch, cln, vld>>

\* The user deletes one row of the sheet.
DeleteRow ==
    /\ rea.pc = "exported" /\ ~ rea.edited
    /\ \E i \in 1..Len(rea.file.sheet.rows) :
          rea' = [rea EXCEPT !.edited = TRUE,
                            !.file.sheet.rows = SubSeq(@, 1, i - 1) \o SubSeq(@, i + 1, Len(@))]
    /\ UNCHANGED <<cls, ext, scr, rd, cmp, run, ana, amb, rty, srch, cln, vld>>

\* The user uploads another file: one whose name does not end with .xlsx,
\* one that openpyxl cannot read, or a workbook without the sheet
\* Readability_Data.
ReplaceFile ==
    /\ rea.pc = "exported" /\ ~ rea.edited
    /\ \E f \in {"xlsx", "readable", "has_sheet"} :
          rea' = [rea EXCEPT !.edited = TRUE,
                            !.file = [xlsx |-> f # "xlsx", readable |-> f # "readable",
                                      has_sheet |-> f # "has_sheet", sheet |-> NoDataFrame]]
    /\ UNCHANGED <<cls, ext, scr, rd, cmp, run, ana, amb, rty, srch, cln, vld>>

\* if os.path.exists(temp_path): os.remove(temp_path)
RemoveTemp(exists) == FALSE

\* A variant of CleanupOnError that leaves the temporary file.
CleanupOnErrorSkipped(bound, exists) == exists

\* The except clause of run_reanalysis: the temporary file is removed when
\* temp_path is bound and the file exists.
CleanupOnError(bound, exists) == IF bound /\ exists THEN FALSE ELSE exists

\* run_reanalysis: the upload is written to the temporary file and
\* validated; a rejected file is reported, its temporary copy is removed and
\* the handler returns.
ValidateUpload ==
    /\ rea.pc = "exported"
    /\ LET v == validate_uploaded_file(rea.file)
       IN  rea' = [rea EXCEPT !.pc = IF v.is_valid THEN "validated" ELSE "rejected",
                              !.validation = v,
                              !.temp_exists = IF v.is_valid THEN TRUE ELSE RemoveTemp(TRUE)]
    /\ UNCHANGED <<cls, ext, scr, rd, cmp, run, ana, amb, rty, srch, cln, vld>>

\* run_reanalysis: df_prepared = prepare_dataframe_for_analysis(df); an
\* exception of this step goes to the except clause of run_reanalysis.
Prepare ==
    /\ rea.pc = "validated"
    /\ \E raises \in BOOLEAN :
          rea' = IF raises
                 THEN [rea EXCEPT !.pc = "prepare_raised",
                                  !.temp_exists = CleanupOnError(TRUE, @)]
                 ELSE [rea EXCEPT !.pc = "prepared",
                                  !.df = prepare_dataframe_for_analysis(rea.validation.df)]
    /\ UNCHANGED <<cls, ext, scr, rd, cmp, run, ana, amb, rty, srch, cln, vld>>

\* run_reanalysis_pipeline, step 1: the statistics, when run_stats is set; an
\* exception leaves stats None.
ReanalysisStatistics ==
    /\ rea.pc = "prepared"
    /\ \E run_stats \in BOOLEAN, raises \in BOOLEAN :
          /\ raises => run_stats
          /\ rea' = [rea EXCEPT !.pc = "statistics_done",
                                !.steps = IF run_stats THEN Append(@, "statistics") ELSE @,
                                !.stats_failed = raises,
                                !.stats = IF run_stats /\ ~ raises
                                          THEN perform_statistical_analysis(rea.df.rows, rea.oracle)
                                          ELSE NoStats]
    /\ UNCHANGED <<cls, ext, scr, rd, cmp, run, ana, amb, rty, srch, cln, vld>>

\* run_reanalysis_pipeline, step 2: the figures, when generate_figs is set; an
\* exception leaves the list of figures empty.
ReanalysisVisualizations ==
    /\ rea.pc = "statistics_done"
    /\ \E generate_figs \in BOOLEAN, raises \in BOOLEAN :
          /\ raises => generate_figs
          /\ rea' = [rea EXCEPT !.pc = "visualizations_done",
                                !.steps = IF generate_figs THEN Append(@, "visualizations") ELSE @,
                                !.figures_failed = raises,
                                !.figures = generate_figs /\ ~ raises]
    /\ UNCHANGED <<cls, ext, scr, rd, cmp, run, ana, amb, rty, srch, cln, vld>>

\* run_reanalysis_pipeline, step 3: the export; then the results are returned
\* to run_reanalysis, which stores them in the session and removes the
\* temporary file.  An exception of the export reaches the except clause of
\* run_reanalysis.
ReanalysisExport ==
    /\ rea.pc = "visualizations_done"
    /\ \E raises \in BOOLEAN :
          LET ended == ExportFailure(raises)
          IN  rea' = [rea EXCEPT !.pc = ended,
                                 !.steps = Append(@, "export"),
                                 !.excel_path = IF raises THEN None ELSE "results/data/reanalysis.xlsx",
                                 !.session = IF ended = "returned" THEN "reanalysis" ELSE @,
                                 !.temp_exists = IF ended = "returned" THEN RemoveTemp(@)
                                                 ELSE CleanupOnError(TRUE, @)]
    /\ UNCHANGED <<cls, ext, scr, rd, cmp, run, ana, amb, rty, srch, cln, vld>>

NextReanalysis ==
    \/ ExportResults
    \/ EditScore
    \/ EditSourceType
    \/ DeleteColumn
    \/ DeleteRow
    \/ ReplaceFile
    \/ ValidateUpload
    \/ Prepare
    \/ ReanalysisStatistics
    \/ ReanalysisVisualizations
    \/ ReanalysisExport

SpecReanalysis == InitReanalysis /\ [][NextReanalysis]_vars

-----------------------------------------------------------------------------
(* modules/classifier.py: batch_classify, get_ambiguous_classifications    *)

\* data.get(key, default) of a dictionary.
Get(data, key, default) == IF key \in DOMAIN data THEN data[key] ELSE default

\* The dictionary data after data['source_type'] = r.classification and
\* data['classification_confidence'] = r.confidence: every other key is kept.
Classified(data, r) ==
    [key \in DOMAIN data \cup {"source_type", "classification_confidence"} |->
        IF key = "source_type" THEN r.classification
        ELSE IF key = "classification_confidence" THEN r.confidence
        ELSE data[key]]

\* batch_classify on one entry: the entry with its source_type and its
\* classification_confidence.
ClassifiedEntry(data) ==
    Classified(data, classify_source(Get(data, "url", ""), Get(data, "title", ""),
                                     Get(data, "domain", "")))

\* batch_classify(urls_data)
batch_classify(urls_data) == [k \in 1..Len(urls_data) |-> ClassifiedEntry(urls_data[k])]

\* The entry that get_ambiguous_classifications appends for one record.
AmbiguousEntry(data) ==
    [url |-> Get(data, "url", None),
     domain |-> Get(data, "domain", extract_domain_from_url(Get(data, "url", ""))),
     classification |-> Get(data, "source_type", None),
     confidence |-> Get(data, "classification_confidence", 0)]

RECURSIVE get_ambiguous_classifications(_, _)
\* get_ambiguous_classifications(urls_data, threshold)
get_ambiguous_classifications(urls_data, threshold) ==
    IF urls_data = <<>> THEN <<>>
    ELSE LET confidence == Get(Head(urls_data), "classification_confidence", 0)
         IN  (IF confidence <= threshold /\ confidence > 0
              THEN <<AmbiguousEntry(Head(urls_data))>> ELSE <<>>)
             \o get_ambiguous_classifications(Tail(urls_data), threshold)

\* The default of the parameter threshold.
DefaultThreshold == 2

\* The longest list of records that is queried.
MaxClassified == 3

\* Search results that classify_source gives the confidences 0, 1, 2, 3 and
\* 4, and two without the key domain, one of them as the search returns it.
AmbiguousInputs ==
    { [url |-> "http://blog.example.com/post", title |-> "My blog", domain |-> "blog.example.com"],
      [url |-> "http://blog.example.com/post", title |-> "Who we are", domain |-> "blog.example.com"],
      [url |-> "https://example.com/government/a", title |-> "", domain |-> "example.com"],
      [url |-> "https://www.cdc.gov/x", title |-> "", domain |-> "cdc.gov"],
      [url |-> "https://www.cdc.gov/x", title |-> "CDC Guidance", domain |-> "cdc.gov"],
      [url |-> "https://www.cdc.gov/bloodpressure/index.htm", title |-> "High Blood Pressure | CDC"],
      [url |-> "http://www.example.com/post", title |-> "Who we are", snippet |-> "s", rank |-> 1] }

\* The classified lists of at most MaxClassified records.
ClassifiedLists ==
    UNION { [1..n -> {ClassifiedEntry(d) : d \in AmbiguousInputs}] : n \in 0..MaxClassified }

InitAmbiguous ==
    /\ amb \in [pc : {"classified"}, urls_data : ClassifiedLists, given : {<<>>},
                ambiguous : {<<>>}]
    /\ cls = Idle /\ ext = Idle /\ scr = Idle /\ rd = Idle /\ cmp = Idle /\ run = Idle
    /\ ana = Idle /\ rea = Idle /\ rty = Idle /\ srch = Idle /\ cln = Idle /\ vld = Idle

\* One call get_ambiguous_classifications(urls_data); given is the list as it
\* was handed over.
GetAmbiguous ==
    /\ amb.pc = "classified"
    /\ amb' = [amb EXCEPT !.pc = "queried",
                          !.given = amb.urls_data,
                          !.ambiguous = get_ambiguous_classifications(amb.urls_data,
                                                                      DefaultThreshold)]
    /\ UNCHANGED <<cls, ext, scr, rd, cmp, run, ana, rea, rty, srch, cln, vld>>

NextAmbiguous == GetAmbiguous

SpecAmbiguous == InitAmbiguous /\ [][NextAmbiguous]_vars

-----------------------------------------------------------------------------
(* C1                                                                      *)

\* The elements strategy k looks at, in the order it looks at them.
StrategyElements(doc, k) ==
    CASE k = 1 -> IF FindAllTag(doc, "article") = <<>> THEN <<>>
                  ELSE <<Head(FindAllTag(doc, "article"))>>
      [] k = 2 -> IF FindAllTag(doc, "main") = <<>> THEN <<>>
                  ELSE <<Head(FindAllTag(doc, "main"))>>
      [] k = 3 -> Candidates3(doc, 1)
      [] k = 4 -> <<>>
      [] k = 5 -> IF FindAllTag(doc, "body") = <<>> THEN <<>>
                  ELSE <<Head(FindAllTag(doc, "body"))>>

\* The texts strategy k yields, in the order it yields them.
StrategyTexts(doc, k) ==
    IF k = 4
    THEN (IF Paragraphs(doc) = <<>> THEN <<>> ELSE <<ParagraphText(doc)>>)
    ELSE [n \in 1..Len(StrategyElements(doc, k)) |-> GetText(doc, StrategyElements(doc, k)[n])]

\* The texts of strategy k that have at least MIN_WORD_COUNT words.
TextsMeetingMinimum(doc, k) ==
    SelectSeq(StrategyTexts(doc, k), LAMBDA t : WordCount(t) >= MIN_WORD_COUNT)

\* The texts of strategy k that have more than MIN_WORD_COUNT words.
TextsExceedingMinimum(doc, k) ==
    SelectSeq(StrategyTexts(doc, k), LAMBDA t : WordCount(t) > MIN_WORD_COUNT)

\* C1 as stated: the strategies are consulted in the order 1, 2, 3, 4, 5, and
\* when a consulted strategy yields a text of at least MIN_WORD_COUNT words,
\* that text is what extract_main_content returns and no later strategy is
\* consulted.
C1_ShortCircuitAtMinimum ==
    /\ ext.consulted = [n \in 1..Len(ext.consulted) |-> n]
    /\ ext.done =>
          \A k \in 1..Len(ext.consulted) :
              TextsMeetingMinimum(ext.doc, k) # <<>> =>
                  /\ ext.result = Found(Head(TextsMeetingMinimum(ext.doc, k)))
                  /\ Len(ext.consulted) = k

\* C1: the strategies are consulted in the order 1, 2, 3, 4, 5, and when a
\* consulted strategy yields a text of more than MIN_WORD_COUNT words, that
\* text is what extract_main_content returns and no later strategy is
\* consulted.
C1_ShortCircuit ==
    /\ ext.consulted = [n \in 1..Len(ext.consulted) |-> n]
    /\ ext.done =>
          \A k \in 1..Len(ext.consulted) :
              TextsExceedingMinimum(ext.doc, k) # <<>> =>
                  /\ ext.result = Found(Head(TextsExceedingMinimum(ext.doc, k)))
                  /\ Len(ext.consulted) = k

\* The article has exactly MIN_WORD_COUNT words and is passed over, the text
\* of a content-indicator element with more words is returned, and the
\* paragraphs, which have more than MIN_WORD_COUNT words too, are not
\* consulted.
C1_Witness ==
    /\ ext.done
    /\ ext.consulted = <<1, 2, 3>>
    /\ StrategyTexts(ext.doc, 1) # <<>>
    /\ WordCount(Head(StrategyTexts(ext.doc, 1))) = MIN_WORD_COUNT
    /\ TextsExceedingMinimum(ext.doc, 3) # <<>>
    /\ ext.result = Found(Head(TextsExceedingMinimum(ext.doc, 3)))
    /\ TextsExceedingMinimum(ext.doc, 4) # <<>>
    /\ Head(TextsExceedingMinimum(ext.doc, 4)) # ext.result.text

-----------------------------------------------------------------------------
(* C2                                                                      *)

\* The group passes the normality check: it has at least three values and
\* the Shapiro-Wilk test returned a p-value above 0.05.
CmpPasses(group, shapiro) ==
    Len(group) >= 3 /\ ~ shapiro.raises /\ ~ shapiro.p_value.nan /\ shapiro.p_value.v > 50

\* C2: a non-error result of compare_groups reports the test
\* "Independent t-test" exactly when both groups pass the normality check and
\* "Mann-Whitney U test" when either group fails it; it reports no other test.
C2_TestSelection ==
    (cmp.pc = "compared" /\ ~ cmp.result.error) =>
        LET both == /\ CmpPasses(cmp.group1, cmp.oracle.shapiro1)
                    /\ CmpPasses(cmp.group2, cmp.oracle.shapiro2)
        IN  /\ cmp.result.test_used \in {"Independent t-test", "Mann-Whitney U test"}
            /\ (cmp.result.test_used = "Independent t-test") <=> both
            /\ (cmp.result.test_used = "Mann-Whitney U test") <=> ~ both

\* A comparison of a normal group with a group the Shapiro-Wilk test rejects
\* at p = 0.05 exactly: the Mann-Whitney U test is reported.
C2_Witness ==
    /\ cmp.pc = "compared" /\ ~ cmp.result.error
    /\ CmpPasses(cmp.group1, cmp.oracle.shapiro1)
    /\ Len(cmp.group2) >= 3 /\ ~ cmp.oracle.shapiro2.raises
    /\ cmp.oracle.shapiro2.p_value = Float(50)
    /\ cmp.result.test_used = "Mann-Whitney U test"

-----------------------------------------------------------------------------
(* C3, C4                                                                  *)

ClsTier1Matched ==
    LET d == ToLower(IF cls.domain = "" THEN extract_domain_from_url(cls.url) ELSE cls.domain)
    IN  \E k \in 1..Len(INSTITUTIONAL_DOMAINS) :
            \/ EndsWith(d, INSTITUTIONAL_DOMAINS[k])
            \/ Contains(d, INSTITUTIONAL_DOMAINS[k])

ClsTier2Matched ==
    \E k \in 1..Len(INSTITUTIONAL_PATTERNS) :
        Contains(ToLower(cls.url), ToLower(INSTITUTIONAL_PATTERNS[k]))

ClsTier3Matched ==
    /\ cls.title # None
    /\ \E k \in 1..Len(INSTITUTIONAL_KEYWORDS) :
        Contains(ToLower(cls.title), ToLower(INSTITUTIONAL_KEYWORDS[k]))

ClsMatchCount1 ==
    LET d == ToLower(IF cls.domain = "" THEN extract_domain_from_url(cls.url) ELSE cls.domain)
    IN  Cardinality({k \in 1..Len(INSTITUTIONAL_DOMAINS) :
                        Contains(d, INSTITUTIONAL_DOMAINS[k])})

\* C3: the confidence returned by classify_source is 3 if tier 1 matched, plus
\* 2 if tier 2 matched, plus 1 if tier 3 matched: every tier counts at most
\* once however many of its entries match, so the confidence is in 0..6.
C3_TierWeightsOnce ==
    cls.pc = "classified" =>
        /\ cls.confidence = (IF ClsTier1Matched THEN 3 ELSE 0)
                            + (IF ClsTier2Matched THEN 2 ELSE 0)
                            + (IF ClsTier3Matched THEN 1 ELSE 0)
        /\ cls.confidence \in 0..6

\* A classified input in which several entries of tier 1 match at once.
C3_Witness ==
    /\ cls.pc = "classified"
    /\ ClsMatchCount1 >= 2
    /\ ClsTier2Matched /\ ClsTier3Matched
    /\ cls.confidence = 6

\* C4: the label is Institutional exactly when the confidence reaches
\* CONFIDENCE_THRESHOLD, Private otherwise (confidence 0 included), and
\* https://www.cdc.gov/x titled "CDC Guidance" gets confidence 4, Institutional.
C4_LabelIffThreshold ==
    cls.pc = "classified" =>
        /\ cls.classification \in {"Institutional", "Private"}
        /\ (cls.classification = "Institutional") <=> (cls.confidence >= CONFIDENCE_THRESHOLD)
        /\ (cls.url = "https://www.cdc.gov/x" /\ cls.title = "CDC Guidance" /\ cls.domain = "")
              => (cls.confidence = 4 /\ cls.classification = "Institutional")

\* The scenario of the specification, classified, with a confidence exactly at
\* the threshold reached by another input.
C4_Witness ==
    /\ cls.pc = "classified"
    /\ cls.url = "https://www.cdc.gov/x" /\ cls.title = "CDC Guidance" /\ cls.domain = ""
    /\ cls.confidence = 4
    /\ cls.classification = "Institutional"

-----------------------------------------------------------------------------
(* C5                                                                      *)

RdInRange(score) == score.null \/ (score.v >= 0 /\ score.v <= 30)

\* The score the claim expects under a key: the library's value, or null when
\* that value is not a number in [0, 30].
RdExpected(value) ==
    IF ~ value.nan /\ value.v >= 0 /\ value.v <= 30 THEN Score(value.v) ELSE NullScore

RdSum(scores) == scores[1] + scores[2] + scores[3] + scores[4]

\* C5: for a text of at least MIN_WORD_COUNT words that the library scores,
\* calculate_readability returns a record in which each of GFI, SMOG, FKG and
\* ARI is null or within [0, 30], and mean_readability is the arithmetic mean
\* of the non-null scores, or null when all four are null; the record is
\* returned in that case too.
C5_ScoresInRangeAndMean ==
    (rd.pc = "scored" /\ WordCount(rd.text) >= MIN_WORD_COUNT /\ ~ rd.lib.raises) =>
        LET r == rd.result
            expected == [k \in 1..4 |-> RdExpected(rd.lib[ScoreKeys[k]])]
            n   == Cardinality({k \in 1..4 : ~ expected[k].null})
            sum == RdSum([k \in 1..4 |-> IF expected[k].null THEN 0 ELSE expected[k].v])
        IN  /\ r.returned
            /\ \A k \in 1..4 : r[ScoreKeys[k]] = expected[k] /\ RdInRange(r[ScoreKeys[k]])
            /\ IF n = 0 THEN r.mean_readability.null
               ELSE /\ ~ r.mean_readability.null
                    /\ r.mean_readability.sum * n = sum * r.mean_readability.n
                    /\ r.mean_readability.n > 0

-----------------------------------------------------------------------------
(* C6, C7, C8                                                              *)

\* The scrape got a 200 response and extract_main_content returned a text.
ScrReachedValidation ==
    /\ scr.pc = "scraped"
    /\ scr.fetch.kind = "response" /\ scr.fetch.code = "200"
    /\ extract_main_content(scr.fetch.doc).ok

\* The text handed to validate_content.
ScrCleaned == clean_text(extract_main_content(scr.fetch.doc).text)

\* C6: a document whose cleaned text has fewer than MIN_WORD_COUNT words
\* (MIN_WORD_COUNT - 1 in particular) or more than MAX_WORD_COUNT words ends
\* with status insufficient_text, and one whose cleaned text has between
\* MIN_WORD_COUNT (exactly that many in particular) and MAX_WORD_COUNT words
\* ends with status success.
C6_LengthGates ==
    ScrReachedValidation =>
        /\ (WordCount(ScrCleaned) < MIN_WORD_COUNT \/ WordCount(ScrCleaned) > MAX_WORD_COUNT)
              => scr.result.status = "insufficient_text"
        /\ (WordCount(ScrCleaned) >= MIN_WORD_COUNT /\ WordCount(ScrCleaned) <= MAX_WORD_COUNT)
              => scr.result.status = "success"

\* A page whose text has MIN_WORD_COUNT + 1 words, and exactly MIN_WORD_COUNT
\* once cleaned, scraped with status success.
C6_Witness ==
    /\ ScrReachedValidation
    /\ WordCount(extract_main_content(scr.fetch.doc).text) = MIN_WORD_COUNT + 1
    /\ WordCount(ScrCleaned) = MIN_WORD_COUNT
    /\ scr.result.status = "success"

\* C7: when the text that reaches validation is empty (nothing was extracted,
\* or the extracted text is empty once cleaned), the status recorded is
\* extraction_failed.
C7_EmptyTextIsExtractionFailed ==
    (/\ scr.pc = "scraped"
     /\ scr.fetch.kind = "response" /\ scr.fetch.code = "200"
     /\ (~ extract_main_content(scr.fetch.doc).ok \/ ScrCleaned = <<>>))
        => scr.result.status = "extraction_failed"

IsDigits(s) == s # "" /\ \A i \in 1..Len(s) : IsCharOf(CharAt(s, i), DigitChars)

IsHttpErrorStatus(status) ==
    /\ StartsWith(status, "http_error_")
    /\ IsDigits(SubSeq(status, Len("http_error_") + 1, Len(status)))

\* C8: every call of scrape_webpage returns a record with one status out of
\* success, http_error_<code>, timeout, request_error, extraction_failed,
\* insufficient_text, error (no exception reaches the caller), and the status
\* is success only if a non-empty text was extracted whose word count is
\* neither below MIN_WORD_COUNT nor above MAX_WORD_COUNT.
C8_OneStatusNeverRaises ==
    scr.pc = "scraped" =>
        /\ \/ scr.result.status \in {"success", "timeout", "request_error",
                                     "extraction_failed", "insufficient_text", "error"}
           \/ IsHttpErrorStatus(scr.result.status)
        /\ scr.result.status = "success" =>
              /\ scr.fetch.kind = "response" /\ scr.fetch.code = "200"
              /\ scr.result.content.ok
              /\ scr.result.content.text # <<>>
              /\ scr.result.content.text = ScrCleaned
              /\ scr.result.word_count = WordCount(scr.result.content.text)
              /\ scr.result.word_count >= MIN_WORD_COUNT
              /\ scr.result.word_count <= MAX_WORD_COUNT

\* A page of exactly MAX_WORD_COUNT words scraped with status success.
C8_Witness ==
    /\ scr.pc = "scraped"
    /\ scr.result.status = "success"
    /\ scr.result.word_count = MAX_WORD_COUNT

-----------------------------------------------------------------------------
(* C9, C10                                                                 *)

\* The loops over the documents are over.
BatchDocumentsDone == run.pc \in {"stats", "figures", "export", "done"}

\* The loops of the scraping, classification and scoring steps never end
\* the analysis, and once they are over every one of the N search results
\* has been scraped, classified and appended to the results; the stored
\* dataset holds N records.
BatchLoopsNeverAborted ==
    /\ run.failed_at \notin {"scrape", "classify", "score"}
    /\ BatchDocumentsDone =>
          /\ run.appended = Len(run.urls)
          /\ \A k \in 1..Len(run.urls) :
                /\ run.urls[k].rank = k
                /\ run.urls[k].status # ""
                /\ run.urls[k].source_type \in {"Institutional", "Private"}
    /\ run.pc = "done" => Len(run.dataset) = Len(run.urls)

\* C9: no document ends the batch: for every list of N search results the
\* analysis never fails in a step that works on the single results (the
\* domains, the scraping, the classification, the scoring), all N are
\* scraped, classified and appended to the results, and the stored dataset
\* holds N records.
C9_BatchNeverAborted ==
    /\ run.failed_at # "domains"
    /\ BatchLoopsNeverAborted

RECURSIVE SuccessGroupData(_, _, _)
\* The values of a metric in the records of a source type whose status is
\* success.
SuccessGroupData(results, source_type, metric) ==
    IF results = <<>> THEN <<>>
    ELSE (IF /\ Head(results).source_type = source_type
             /\ Head(results).status = "success"
             /\ ~ MetricValue(Head(results), metric).null
          THEN <<MetricValue(Head(results), metric).v>> ELSE <<>>)
         \o SuccessGroupData(Tail(results), source_type, metric)

\* C10: a record whose status is not success has no GFI, SMOG, FKG, ARI or
\* mean_readability value, though it may carry text, and the two samples of
\* every comparison hold exactly the values of the success records of the
\* two source types.
C10_OnlySuccessRecordsCount ==
    /\ \A k \in 1..Len(run.urls) :
          run.urls[k].status # "success" =>
              /\ ~ run.urls[k].metrics.returned
              /\ \A m \in 1..Len(Metrics) : MetricValue(run.urls[k], Metrics[m]).null
    /\ run.stats.ran =>
          \A m \in 1..Len(Metrics) :
              run.stats.comparisons[m].present =>
                  /\ run.stats.comparisons[m].data1
                        = SuccessGroupData(Results(run), "Institutional", Metrics[m])
                  /\ run.stats.comparisons[m].data2
                        = SuccessGroupData(Results(run), "Private", Metrics[m])

\* A finished batch with a comparison of two non-empty samples in which a
\* record with status insufficient_text carries text of more than
\* MAX_WORD_COUNT words.
C10_Witness ==
    /\ run.pc = "done" /\ run.stats.ran
    /\ \E m \in 1..Len(Metrics) : run.stats.comparisons[m].present
    /\ \E k \in 1..Len(run.urls) :
          /\ run.urls[k].status = "insufficient_text"
          /\ run.urls[k].content.ok
          /\ WordCount(run.urls[k].content.text) > MAX_WORD_COUNT

-----------------------------------------------------------------------------
(* C11                                                                     *)

\* The test of the comparison raises (the effect sizes are arithmetic on
\* the groups and raise nothing).
AnaFails(data1, data2, o) == o.test.raises

\* The oracle with the failure taken away.
AnaRepaired(o) ==
    [o EXCEPT !.test = [raises |-> FALSE, statistic |-> 2, p_value |-> Float(49)]]

\* C11: perform_statistical_analysis returns whatever fails; the comparison
\* of a metric whose test raises is an error entry, and the
\* comparison of every other metric is the entry the analysis gives when no
\* failure happens in any other metric.
C11_FailurePerMetric ==
    ana.pc = "analysed" =>
        LET repaired == perform_statistical_analysis(ana.df,
                            [k \in 1..Len(Metrics) |-> AnaRepaired(ana.oracle[k])])
        IN  /\ ana.stats.ran
            /\ \A k \in 1..Len(Metrics) :
                  LET c == ana.stats.comparisons[k]
                  IN  /\ c.present = repaired.comparisons[k].present
                      /\ c.present =>
                            IF AnaFails(c.data1, c.data2, ana.oracle[k])
                            THEN c.result.error
                            ELSE /\ ~ c.result.error
                                 /\ c = repaired.comparisons[k]

\* An analysis in which the tests of two metrics raise, the Shapiro-Wilk
\* test raises for another, and a later metric is compared without error.
C11_Witness ==
    /\ ana.pc = "analysed"
    /\ \E i, j, k \in 1..Len(Metrics) :
          /\ i # j
          /\ ana.stats.comparisons[i].present /\ ana.oracle[i].test.raises
          /\ ana.stats.comparisons[i].result.error
          /\ ana.stats.comparisons[j].present /\ ana.oracle[j].test.raises
          /\ ana.stats.comparisons[j].result.error
          /\ k > i /\ k > j
          /\ ana.stats.comparisons[k].present /\ ~ ana.stats.comparisons[k].result.error
          /\ ana.oracle[k].shapiro1.raises

-----------------------------------------------------------------------------
(* C12                                                                     *)

\* The re-analysis computed the statistics of a sheet nobody edited.
ReaUneditedStats == rea.pc = "statistics_done" /\ ~ rea.edited /\ rea.stats.ran

\* C12: a dataset exported to the sheet Readability_Data and uploaded with no
\* edit is accepted by validate_uploaded_file, and perform_statistical_analysis
\* of the prepared DataFrame gives, for every metric, the comparison of the
\* original run: the same test, statistic, p-value, significance, effect
\* size, group means and direction.
C12_RoundTrip ==
    /\ (rea.pc = "rejected" => rea.edited)
    /\ (ReaUneditedStats =>
            \A k \in 1..Len(Metrics) :
                /\ rea.stats.comparisons[k].present = rea.stats0.comparisons[k].present
                /\ rea.stats.comparisons[k].result = rea.stats0.comparisons[k].result)

-----------------------------------------------------------------------------
(* C13                                                                     *)

\* The mean m is the mean of the non-null scores of metrics (null if none).
IsCurrentMean(m, metrics) ==
    LET sum == SumValid(metrics, score_columns)
        n   == CountValid(metrics, score_columns)
    IN  IF n = 0 THEN m.null ELSE ~ m.null /\ m.sum * n = sum * m.n

\* C13: in the DataFrame the re-analysis hands to the statistics, after an
\* edit of a score or without one, the mean_readability of every row is the
\* mean of the row's non-null GFI, SMOG, FKG and ARI values (null if none).
C13_MeanNeverStale ==
    rea.pc = "prepared" =>
        \A i \in 1..Len(rea.df.rows) :
            IsCurrentMean(rea.df.rows[i].metrics.mean_readability, rea.df.rows[i].metrics)

-----------------------------------------------------------------------------
(* C14                                                                     *)

\* run_reanalysis_pipeline has ended: it returned its results or raised.
ReaPipelineEnded == rea.pc \in {"returned", "raised"}

\* C14: the steps of run_reanalysis_pipeline run in the order statistics,
\* visualizations, export; a failure of the statistics leaves stats null and
\* a failure of the figures leaves no figure, and in both cases the export
\* is still attempted; a failure of the export is raised to the caller, so
\* that returned results always have an excel_path.
C14_ExportFailureIsFatal ==
    /\ rea.pc \in {"statistics_done", "visualizations_done", "returned", "raised"} =>
          /\ rea.steps \in {<<>>, <<"statistics">>, <<"visualizations">>,
                            <<"statistics", "visualizations">>, <<"export">>,
                            <<"statistics", "export">>, <<"visualizations", "export">>,
                            <<"statistics", "visualizations", "export">>}
          /\ (rea.stats_failed => rea.stats = NoStats /\ rea.steps[1] = "statistics")
          /\ (rea.figures_failed => ~ rea.figures)
    /\ (ReaPipelineEnded => rea.steps[Len(rea.steps)] = "export")
    /\ (rea.pc = "returned" => rea.excel_path # None)
    /\ (rea.pc = "raised" => rea.excel_path = None)

\* The statistics and the figures both failed and the results were returned
\* with the exported file.
C14_Witness ==
    /\ rea.pc = "returned" /\ rea.stats_failed /\ rea.figures_failed
    /\ rea.steps = <<"statistics", "visualizations", "export">>
    /\ rea.excel_path # None

-----------------------------------------------------------------------------
(* C15                                                                     *)

\* What the claim says of one call test_normality(data) with the outcome
\* shapiro of the Shapiro-Wilk test and the result norm.
NormalityAsClaimed(data, shapiro, norm) ==
    IF Len(data) < 3
    THEN ~ norm.is_normal /\ norm.statistic.null /\ norm.p_value.null
         /\ norm.note = "Sample size too small for test"
    ELSE /\ norm.is_normal <=>
               (~ shapiro.raises /\ ~ shapiro.p_value.nan /\ shapiro.p_value.v > 50)
         /\ (shapiro.raises => ~ norm.is_normal /\ norm.statistic.null /\ norm.p_value.null)
         /\ (~ shapiro.raises => norm.p_value = SomeFloat(shapiro.p_value))

\* C15: test_normality of fewer than 3 values reports non-normal with null
\* statistic and p-value, whatever the Shapiro-Wilk test would give; of 3 or
\* more values, is_normal holds iff the test returned a p-value strictly
\* above 0.05, and a test that raises gives non-normal.
C15_NormalityTest ==
    cmp.pc = "compared" =>
        /\ NormalityAsClaimed(cmp.group1, cmp.oracle.shapiro1, cmp.norm1)
        /\ NormalityAsClaimed(cmp.group2, cmp.oracle.shapiro2, cmp.norm2)

\* A group of 3 values with p = 0.051 is normal, beside a group of 2 values
\* for which the test would have given the same p-value.
C15_Witness ==
    /\ cmp.pc = "compared"
    /\ Len(cmp.group1) = 3 /\ cmp.oracle.shapiro1.p_value = Float(51) /\ cmp.norm1.is_normal
    /\ Len(cmp.group2) = 2 /\ cmp.oracle.shapiro2.p_value = Float(51) /\ ~ cmp.norm2.is_normal

-----------------------------------------------------------------------------
(* C16                                                                     *)

\* C16: in every comparison that did not fail the direction is
\* "Institutional < Private" exactly when the mean of the Institutional group
\* is lower than the mean of the Private group, and "Institutional > Private"
\* exactly when the mean of the Private group is lower; with equal means
\* neither group scores lower.
C16_DirectionNamesLowerGroup ==
    (cmp.pc = "compared" /\ ~ cmp.result.error) =>
        /\ (cmp.result.direction = "Institutional < Private"
                <=> MeanLess(cmp.group1, cmp.group2))
        /\ (cmp.result.direction = "Institutional > Private"
                <=> MeanLess(cmp.group2, cmp.group1))

-----------------------------------------------------------------------------
(* C17                                                                     *)

\* C17: in every comparison that did not fail, significant holds iff the
\* p-value of the test is a number strictly below SIGNIFICANCE_LEVEL; a
\* p-value equal to the level, or NaN, is not significant.
C17_SignificantIffBelowLevel ==
    (cmp.pc = "compared" /\ ~ cmp.result.error) =>
        /\ cmp.result.p_value = cmp.oracle.test.p_value
        /\ (cmp.result.significant <=>
                (~ cmp.result.p_value.nan /\ cmp.result.p_value.v < SIGNIFICANCE_LEVEL))
        /\ (cmp.result.p_value.nan => ~ cmp.result.significant)
        /\ (cmp.result.p_value = Float(SIGNIFICANCE_LEVEL) => ~ cmp.result.significant)

\* A p-value of 0.049 is significant.
C17_Witness ==
    /\ cmp.pc = "compared" /\ ~ cmp.result.error
    /\ cmp.result.p_value = Float(SIGNIFICANCE_LEVEL - 1) /\ cmp.result.significant

-----------------------------------------------------------------------------
(* C18                                                                     *)

\* The tiers that match an input: 1 for an institutional domain, 2 for a URL
\* pattern, 3 for a title keyword.
MatchingTiers(url, title, domain) ==
    LET d == ToLower(IF domain = "" THEN extract_domain_from_url(url) ELSE domain)
    IN  (IF \E k \in 1..Len(INSTITUTIONAL_DOMAINS) : Contains(d, INSTITUTIONAL_DOMAINS[k])
         THEN {1} ELSE {})
        \cup (IF \E k \in 1..Len(INSTITUTIONAL_PATTERNS) :
                    Contains(ToLower(url), ToLower(INSTITUTIONAL_PATTERNS[k]))
              THEN {2} ELSE {})
        \cup (IF title # None /\ \E k \in 1..Len(INSTITUTIONAL_KEYWORDS) :
                    Contains(ToLower(title), ToLower(INSTITUTIONAL_KEYWORDS[k]))
              THEN {3} ELSE {})

\* Every input of the classifier with its matching tiers and the result
\* classify_source gives for it.
ClassifiedInputs ==
    { [tiers |-> MatchingTiers(u, t, d), result |-> classify_source(u, t, d)] :
        u \in ClassifyUrls, t \in ClassifyTitles, d \in ClassifyDomains }

\* C18: the confidence does not decrease when more tiers match: whenever the
\* tiers matching the classified input are among the tiers matching another
\* input, the confidence of the classified input is at most the other's, and
\* if the classified input is Institutional so is the other.
C18_ConfidenceMonotone ==
    cls.pc = "classified" =>
        \A other \in ClassifiedInputs :
            MatchingTiers(cls.url, cls.title, cls.domain) \subseteq other.tiers =>
                /\ cls.confidence <= other.result.confidence
                /\ (cls.classification = "Institutional"
                        => other.result.classification = "Institutional")

\* An Institutional input matched by tier 1 alone, beside an input matched
\* by all three tiers with a higher confidence.
C18_Witness ==
    /\ cls.pc = "classified"
    /\ MatchingTiers(cls.url, cls.title, cls.domain) = {1}
    /\ cls.classification = "Institutional"
    /\ \E other \in ClassifiedInputs :
          other.tiers = {1, 2, 3} /\ other.result.confidence > cls.confidence

-----------------------------------------------------------------------------
(* C19                                                                     *)

\* urlparse(url).path: what follows the scheme and the host, up to the
\* first "?" or "#".
UrlPath(url) ==
    LET after == urlparse(url).rest
    IN  SubSeq(after, 1, FindCharOf(after, "?#", 1) - 1)

\* Some institutional pattern occurs in the path of the URL.
PathHasPattern(url) ==
    \E k \in 1..Len(INSTITUTIONAL_PATTERNS) :
        Contains(ToLower(UrlPath(url)), ToLower(INSTITUTIONAL_PATTERNS[k]))

\* C19: for a URL whose path contains none of the institutional patterns,
\* tier 2 adds nothing: the confidence is what tiers 1 and 3 give, whatever
\* the host or the query of the URL contains.
C19_Tier2OnPathOnly ==
    (cls.pc = "classified" /\ ~ PathHasPattern(cls.url)) =>
        cls.confidence = (IF ClsTier1Matched THEN 3 ELSE 0) + (IF ClsTier3Matched THEN 1 ELSE 0)

-----------------------------------------------------------------------------
(* C20                                                                     *)

\* C20: for a document without any <body> element, extract_main_content
\* returns None, whatever <article>, <main> or content-indicator elements
\* the document holds.
C20_NoBodyNoContent ==
    (ext.done /\ FindAllTag(ext.doc, "body") = <<>>) => ext.result = Nothing

-----------------------------------------------------------------------------
(* C21                                                                     *)

RECURSIVE WithConfidence(_, _)
\* The records of a list whose confidence is c, in the order of the list.
WithConfidence(urls_data, c) ==
    IF urls_data = <<>> THEN <<>>
    ELSE (IF Head(urls_data).classification_confidence = c THEN <<Head(urls_data)>> ELSE <<>>)
         \o WithConfidence(Tail(urls_data), c)

\* C21: get_ambiguous_classifications with the default threshold returns
\* exactly the records whose confidence is below 2 and above 0, that is 1;
\* each entry carries the record's own label and confidence, and the records
\* of the list are left as they were.
C21_AmbiguousIsConfidenceOne ==
    amb.pc = "queried" =>
        /\ amb.urls_data = amb.given
        /\ Len(amb.ambiguous) = Len(WithConfidence(amb.given, 1))
        /\ \A k \in 1..Len(amb.ambiguous) :
              /\ amb.ambiguous[k].confidence = 1
              /\ amb.ambiguous[k].url = WithConfidence(amb.given, 1)[k].url
              /\ amb.ambiguous[k].classification = WithConfidence(amb.given, 1)[k].source_type
              /\ amb.ambiguous[k].classification \in {"Institutional", "Private"}

-----------------------------------------------------------------------------
(* C22                                                                     *)

\* The scraping step of result k has run.
BatchFetched(k) == run.urls[k].status # ""

\* The scoring step of result k has run.
BatchScoringDone(k) ==
    \/ run.pc = "score" /\ run.i > k
    \/ run.pc \in {"stats", "figures", "export", "done"}
    \/ run.pc = "failed" /\ run.failed_at \in {"figures", "export"}

\* C22: the documents are processed one after the other: no document is
\* fetched before the scoring step of the document before it has run.
C22_OneDocumentAtATime ==
    run.pc # "search" =>
        \A k \in 2..Len(run.urls) : BatchFetched(k) => BatchScoringDone(k - 1)

-----------------------------------------------------------------------------
(* C28                                                                     *)

\* C28: search_google_serpapi issues at most MAX_PAGES page requests,
\* whatever the provider answers: at the head of the loop the number of
\* requests made is the page number unless the loop was left by break, so
\* every turn that goes on uses up one of the ten pages; and what it returns
\* is the list of the results collected so far.
C28_SearchTerminates ==
    /\ srch.requests <= MAX_PAGES
    /\ srch.s.page <= MAX_PAGES
    /\ (srch.pc = "loop" /\ ~ srch.s.broke) => srch.requests = srch.s.page
    /\ srch.pc = "returned" => srch.returned = srch.s.results

\* A search that asked for 100 results made its ten requests and returned
\* the two results it got.
C28_Witness ==
    /\ srch.pc = "returned" /\ srch.requests = MAX_PAGES
    /\ srch.num_results = 100 /\ Len(srch.returned) = 2

-----------------------------------------------------------------------------
(* C23                                                                     *)

\* C23: the i-th result of the search has rank i, although requests of the
\* search failed or brought nothing, so the ranks are 1..N; and scraping,
\* classification and scoring leave the rank of every record and the order
\* of the list as the search returned them.
C23_RanksAreSearchOrder ==
    run.pc # "search" =>
        /\ \A k \in 1..Len(run.urls) :
              run.urls[k].rank = k /\ run.urls[k].title = SearchHits[k].title
        /\ \A k \in 1..Len(run.dataset) :
              run.dataset[k].rank = k /\ run.dataset[k].title = SearchHits[k].title

\* A stored dataset of three records, after a search whose first request
\* raised: the second page timed out when it was scraped.
C23_Witness ==
    /\ run.pc = "done" /\ Len(run.dataset) = 3
    /\ run.dataset[2].status = "timeout" /\ run.dataset[3].status = "success"
    /\ run.dataset[3].rank = 3

-----------------------------------------------------------------------------
(* C25, C27                                                                *)

\* The call of scrape_with_retry is over.
RtyEnded == rty.pc \in {"returned", "raised"}

\* A timeout or a 5xx HTTP status.
TimeoutOr5xx(status) ==
    status = "timeout" \/ (Len(status) = 14 /\ StartsWith(status, "http_error_5"))

\* C25: scrape_with_retry tries again after a timeout and after every 5xx
\* status as long as attempts are left, waiting 2^attempt seconds, and after
\* no other status that is not success.
C25_RetryOnTimeoutAnd5xx ==
    /\ \A k \in 1..(Len(rty.statuses) - 1) : TimeoutOr5xx(rty.statuses[k])
    /\ \A k \in 1..Len(rty.sleeps) : rty.sleeps[k] = 2 ^ (k - 1)
    /\ (RtyEnded /\ rty.statuses # <<>> /\ TimeoutOr5xx(rty.statuses[Len(rty.statuses)]))
          => (Len(rty.statuses) = rty.max_attempts /\ Len(rty.sleeps) = rty.max_attempts - 1)

\* C27: scrape_with_retry calls scrape_webpage at most max_attempts times,
\* makes no call after a success or after a status that is not retried,
\* sleeps only between two attempts, and ends by returning the record of the
\* last attempt: it never raises.
C27_AtMostMaxAttemptsNeverRaises ==
    /\ Len(rty.statuses) <= rty.max_attempts
    /\ \A k \in 1..(Len(rty.statuses) - 1) : rty.statuses[k] \in RetryStatuses
    /\ RtyEnded =>
          /\ rty.pc = "returned"
          /\ rty.statuses # <<>>
          /\ rty.returned.status = rty.statuses[Len(rty.statuses)]
          /\ Len(rty.sleeps) = Len(rty.statuses) - 1

-----------------------------------------------------------------------------
(* C24                                                                     *)

\* The scrape extracted a text whose normalized form is not empty and has
\* between MIN_WORD_COUNT and MAX_WORD_COUNT words.
ScrapedWithinGates ==
    /\ scr.pc = "scraped"
    /\ scr.result.content.ok
    /\ scr.result.content.text # <<>>
    /\ WordCount(scr.result.content.text) >= MIN_WORD_COUNT
    /\ WordCount(scr.result.content.text) <= MAX_WORD_COUNT

\* A scraped text within the two length gates is valid and its scrape ends
\* with status success.
ScrapedWithinGatesSucceeds ==
    ScrapedWithinGates =>
        /\ validate_content(scr.result.content.text) = [is_valid |-> TRUE, issues |-> <<>>]
        /\ scr.result.status = "success"

\* C24: the sentence check and the boilerplate check are soft: for every
\* text that is not empty and has between MIN_WORD_COUNT and MAX_WORD_COUNT
\* words, validate_content returns valid with no issues, however few
\* sentences and however many boilerplate phrases the text has.
C24_SoftChecks ==
    (/\ vld.pc = "validated"
     /\ vld.text # <<>>
     /\ WordCount(vld.text) >= MIN_WORD_COUNT
     /\ WordCount(vld.text) <= MAX_WORD_COUNT) =>
        vld.result = [is_valid |-> TRUE, issues |-> <<>>]

\* A text with a tab in it, which clean_text never returns, of fewer than 3
\* sentences and more than 8 boilerplate phrases: both warnings were logged
\* and the text is valid.
C24_Witness ==
    /\ vld.pc = "validated"
    /\ \E k \in 1..Len(vld.text) : Contains(vld.text[k].tok, "\t")
    /\ SentenceCount(vld.text) < 3
    /\ BoilerplateCount(vld.text) > 8
    /\ vld.warnings = {"few_sentences", "high_boilerplate"}
    /\ vld.result = [is_valid |-> TRUE, issues |-> <<>>]

-----------------------------------------------------------------------------
(* C26                                                                     *)

\* validate_uploaded_file has returned for the uploaded file.
ReaValidated == rea.pc \notin {"idle", "results", "exported"}

\* The uploaded table has what the validator is said to ask for.
TableAsRequired ==
    LET t == read_excel(rea.file.sheet)
    IN  /\ {"rank", "url", "domain", "source_type", "GFI", "SMOG", "FKG", "ARI"} \subseteq t.columns
        /\ \A i \in 1..Len(t.rows) :
              /\ t.rows[i].source_type \in {"Institutional", "Private", None}
              /\ \A c \in {"GFI", "SMOG", "FKG", "ARI"} :
                    t.rows[i].metrics[c].null
                    \/ (t.rows[i].metrics[c].v >= 0 /\ t.rows[i].metrics[c].v <= 30)
        /\ Cardinality({ i \in 1..Len(t.rows) :
                           \E c \in {"GFI", "SMOG", "FKG", "ARI"} : ~ t.rows[i].metrics[c].null }) >= 3

\* C26: validate_uploaded_file accepts a table, and returns it, only if it
\* has the required columns, source types that are Institutional, Private
\* or missing, scores within 0..30 and at least 3 rows with a score; a
\* rejection returns a message and no dataframe, and no step of the
\* re-analysis runs on a rejected table.
C26_AcceptsOnlyValidTables ==
    ReaValidated =>
        /\ rea.validation.is_valid =>
              /\ TableAsRequired
              /\ rea.validation.has_df /\ rea.validation.df = read_excel(rea.file.sheet)
        /\ ~ rea.validation.is_valid =>
              /\ ~ rea.validation.has_df /\ rea.validation.df = NoDataFrame
              /\ rea.validation.message # ""
              /\ rea.pc = "rejected" /\ rea.steps = <<>> /\ rea.df = NoDataFrame

\* An edited table with a missing source type was accepted and its
\* re-analysis ran to the end.
C26_Witness ==
    /\ rea.pc = "returned" /\ rea.edited /\ rea.validation.is_valid
    /\ \E i \in 1..Len(rea.file.sheet.rows) : rea.file.sheet.rows[i].source_type = None

-----------------------------------------------------------------------------
(* C30                                                                     *)

\* run_reanalysis is over: the file was rejected, the pipeline returned, or
\* an exception reached the except clause.
RunReanalysisEnded == rea.pc \in {"rejected", "returned", "raised", "prepare_raised"}

\* C30: when run_reanalysis is over, by whichever path, the temporary copy
\* of the upload does not exist; the session holds the results of the
\* re-analysis only when the pipeline completed, and after a rejection or an
\* exception it holds the results it held before.
C30_TempRemovedSessionKept ==
    /\ RunReanalysisEnded => ~ rea.temp_exists
    /\ (rea.pc # "idle" /\ rea.session = "reanalysis") => rea.pc = "returned"
    /\ (RunReanalysisEnded /\ rea.pc # "returned") => rea.session = "full_analysis"
    /\ rea.pc = "returned" => rea.session = "reanalysis"

\* The export of the pipeline raised after the temporary copy was written
\* and two steps ran: the copy is gone and the session holds the results of
\* the first run.
C30_Witness ==
    /\ rea.pc = "raised" /\ Len(rea.steps) = 3
    /\ ~ rea.temp_exists /\ rea.session = "full_analysis"

-----------------------------------------------------------------------------
(* C29                                                                     *)

\* The text has no run of two or more spaces and no space at either end (no
\* empty token), no URL, no e-mail address and no character outside the
\* whitelist.
IsClean(t) ==
    /\ \A k \in 1..Len(t) : t[k].tok # ""
    /\ RemoveUrlsText(t) = t
    /\ RemoveEmailText(t) = t
    /\ StripSpecialText(t) = t

\* C29: clean_text is idempotent, clean_text(clean_text(t)) = clean_text(t):
\* its output has no run of spaces, no space at an end, no URL, no e-mail
\* address and no character outside the whitelist.
C29_CleanTextIdempotent ==
    /\ cln.pc \in {"cleaned", "recleaned"} => IsClean(cln.once)
    /\ cln.pc = "recleaned" => cln.twice = cln.once

=============================================================================
